---- MODULE Spec2Model ----
(***************************************************************************)
(* Verification model of the voice address-extraction application:        *)
(*   postal_code_service.py / address_extractor.py  (postal code          *)
(*       extraction and digit normalisation),                              *)
(*   toriyama_address_parser.py  (candidate extraction and selection),     *)
(*   realtime_speech_service.py / webrtc_speech_service.py  (the shared    *)
(*       transcript store and the recognition worker's life cycle),        *)
(*   app.py  (the step-by-step assembly workflow of tab 1).                *)
(*                                                                         *)
(* Text is a sequence of characters.  The module is ASCII only, so every  *)
(* non-ASCII character of the source is written as a short ASCII name:    *)
(*   "f0".."f9"   full-width digits U+FF10..U+FF19                         *)
(*   "k0".."k9"   kanji numerals  (U+3007, U+4E00, U+4E8C, ...)            *)
(*   "k0b".."k9b" variant kanji numerals (U+96F6, U+58F1, U+5F10, ...)     *)
(*   lower-case romaji   hiragana  ("no" = U+306E, "chi", "go", ...)       *)
(*   upper-case romaji   katakana  ("NO" = U+30CE, "ZE", "RO", ...)        *)
(*       a kana whose romaji is one letter doubles it ("ii", "nn", "NN"),  *)
(*       so that one letter is always the ASCII letter itself              *)
(*   "xtsu"/"xyu", "XTSU"/"XYU"  the small tsu / yu                        *)
(*   "cho"   the long-vowel mark U+30FC,  "minus" the minus sign U+2212    *)
(*   "yubin" the postal mark U+3012,  "fsp" the full-width space U+3000    *)
(*   "uXXXX" any other character, by its code point ("u6771")              *)
(*   "etc"   any character no pattern of the program mentions              *)
(* An absent result (Python None) of a string-valued function is the      *)
(* empty sequence; the callers test such results for truthiness only.     *)
(***************************************************************************)
EXTENDS Integers, Sequences, FiniteSets, TLC

VARIABLES
    \* ---- pure-function harness (SpecPostal, SpecSelect)
    fnText,        \* the text handed to the extractors
    fnCands,       \* the candidate list handed to the selector
    fnOut,         \* their results
    fnPc,          \* "input" before, "done" after the call
    \* ---- the speech service and its store (SpecAgg)
    service,              \* "realtime": RealtimeSpeechService, "webrtc": WebRTCSpeechService
    address_parser,       \* "none", or a ToriyamaAddressParser: "toriyama"
                          \* (parser_available) or "fallback" (not available)
    final_text,           \* realtime only: the last final transcript
    all_final_text,
    interim_text,
    extracted_addresses,
    best_address,
    error_message,
    recognition_active,   \* realtime only
    performance_stats,
    \* ---- the serial run of the service (SpecAgg)
    worker,        \* the recognition worker: "idle", "running", "ended"
    snap,          \* <<d>>: the step taken last was get_session_state_data
                   \* and returned d; <<>> after every other step
    finals,        \* final events handled so far
    cleared,       \* clear_session_state ran and no event was handled since
    after_error,   \* a transcript event was handled since the stored error
    \* ---- the two threads of a recording RealtimeSpeechService (SpecConc)
    producer,      \* the recognition worker inside _handle_recognition_result:
                   \* its position and its locals
    script,        \* the script thread inside get_session_state_data or
                   \* clear_session_state: the call, the key it is at, the
                   \* dict read so far
    since_wipe,    \* the final transcripts appended since all_final_text was
                   \* last cleared
    wiped,         \* clear_session_state has run
    \* ---- the life cycle of the recognition worker (SpecLife)
    recording,     \* self.recording / self.is_streaming (with
                   \* audio_processor.is_recording, set and cleared with it)
    threads,       \* every recognition thread's position
    recognition_thread,   \* self.recognition_thread: the thread started last
    \* ---- the assembly session of tab 1 (Spec)
    segment_current_step,
    segment_recording,
    segment_postal_code,
    segment_base_address,
    segment_detail_text,
    segment_final_address,
    lookup_log     \* the calls of get_address_by_postal_code so far: for each,
                   \* the number of final results delivered before it and
                   \* whether it succeeded

fn_vars == <<fnText, fnCands, fnOut, fnPc>>

config_vars == <<service, address_parser>>

store_vars ==
    <<final_text, all_final_text, interim_text, extracted_addresses, best_address,
      error_message, recognition_active, performance_stats>>

serial_vars == <<worker, snap, finals, cleared, after_error>>

thread_vars == <<producer, script, since_wipe, wiped>>

life_vars == <<recording, threads, recognition_thread>>

session_vars == <<segment_current_step, segment_recording, segment_postal_code,
                  segment_base_address, segment_detail_text, segment_final_address>>

vars == <<fn_vars, config_vars, store_vars, serial_vars, thread_vars, life_vars,
          session_vars, lookup_log>>

(***************************************************************************)
(* Character classes of Python's re module on str patterns.               *)
(***************************************************************************)
AsciiDigits == {"0", "1", "2", "3", "4", "5", "6", "7", "8", "9"}
FullWidthDigits == {"f0", "f1", "f2", "f3", "f4", "f5", "f6", "f7", "f8", "f9"}

\* \d on a str pattern matches every Unicode decimal digit, the full-width
\* digits included.
IsDigit(c) == c \in AsciiDigits \cup FullWidthDigits

\* \s matches Unicode white space, the full-width space included.
IsSpace(c) == c \in {" ", "fsp"}

\* [-<long-vowel mark>]
IsHyphen(c) == c \in {"-", "cho"}

AllDigits(s, from, to) ==
    /\ from >= 1
    /\ to <= Len(s)
    /\ \A k \in from..to : IsDigit(s[k])

RECURSIVE Filter(_, _)
\* the characters of s that are in keep, in order
Filter(s, keep) ==
    IF s = <<>> THEN <<>>
    ELSE IF Head(s) \in keep THEN <<Head(s)>> \o Filter(Tail(s), keep)
    ELSE Filter(Tail(s), keep)

RECURSIVE Remove(_, _)
\* re.sub(r'[...]', '', s) for a one-character class drop
Remove(s, drop) ==
    IF s = <<>> THEN <<>>
    ELSE IF Head(s) \in drop THEN Remove(Tail(s), drop)
    ELSE <<Head(s)>> \o Remove(Tail(s), drop)

RECURSIVE ReplaceAll(_, _, _)
\* str.replace(pat, rep): non-overlapping occurrences, left to right
ReplaceAll(s, pat, rep) ==
    IF Len(s) < Len(pat) THEN s
    ELSE IF SubSeq(s, 1, Len(pat)) = pat
         THEN rep \o ReplaceAll(SubSeq(s, Len(pat) + 1, Len(s)), pat, rep)
         ELSE <<Head(s)>> \o ReplaceAll(Tail(s), pat, rep)

RECURSIVE ReplaceEach(_, _)
\* for pat, rep in pairs: s = s.replace(pat, rep)   (in the order of pairs)
ReplaceEach(s, pairs) ==
    IF pairs = <<>> \/ s = <<>> THEN s
    ELSE LET replaced == ReplaceAll(s, Head(pairs)[1], Head(pairs)[2])
         IN  IF replaced = <<>> THEN <<>> ELSE ReplaceEach(replaced, Tail(pairs))

Min(S) == CHOOSE m \in S : \A n \in S : m <= n

NoneStr == <<>>

(***************************************************************************)
(* The store of a service right after its construction.                    *)
(***************************************************************************)
\* float('inf'), the initial min_time_ms: greater than every duration
Inf == 1000000

\* the performance_stats dict literals; avg_time_ms is a fraction <<n, d>>
RT_InitialStats ==
    [total_extractions |-> 0, avg_time_ms |-> <<0, 1>>, min_time_ms |-> Inf,
     max_time_ms |-> 0, fast_extractions |-> 0]

WR_InitialStats ==
    [total_extractions |-> 0, fast_extractions |-> 0, total_time_ms |-> 0,
     min_time_ms |-> Inf, max_time_ms |-> 0, avg_time_ms |-> <<0, 1>>]

\* no performance_stats: None in a WebRTCSpeechService whose key_prefix does
\* not contain "performance_stats", and the missing key of a
\* RealtimeSpeechService that was never started
NoStats == <<>>

\* the pure-function harness in the specifications that do not use it
FnIdle ==
    /\ fnText = <<>>
    /\ fnCands = <<>>
    /\ fnOut = <<>>
    /\ fnPc = "idle"

StoreInitial(stats) ==
    /\ final_text = <<>>
    /\ all_final_text = <<>>
    /\ interim_text = <<>>
    /\ extracted_addresses = <<>>
    /\ best_address = <<>>
    /\ error_message = ""
    /\ recognition_active = FALSE
    /\ performance_stats = stats

ProducerIdle ==
    [pc |-> "idle", transcript |-> <<>>, tmp |-> <<>>, current_text |-> <<>>,
     addresses |-> <<>>]

ScriptIdle == [call |-> "none", key |-> 0, data |-> <<>>]

MaxThreads == 3

ThreadIds == 1..MaxThreads

\* no recognition thread has been started
LifeIdle ==
    /\ recording = FALSE
    /\ threads = [t \in ThreadIds |-> "none"]
    /\ recognition_thread = 0

STEP_POSTAL_CODE == "postal_code"

STEP_DETAIL_ADDRESS == "detail_address"

STEP_COMPLETE == "complete"

\* app.py: the initial values of the segment_ keys
SessionInitial ==
    /\ segment_current_step = STEP_POSTAL_CODE
    /\ segment_recording = FALSE
    /\ segment_postal_code = <<>>
    /\ segment_base_address = <<>>
    /\ segment_detail_text = <<>>
    /\ segment_final_address = <<>>

\* the two threads in the specifications that run every handler to completion
ThreadsIdle ==
    /\ producer = ProducerIdle
    /\ script = ScriptIdle
    /\ since_wipe = <<>>
    /\ wiped = FALSE

\* the service part of the state in the specifications that do not run it
ServiceIdle ==
    /\ ThreadsIdle
    /\ LifeIdle
    /\ SessionInitial
    /\ lookup_log = <<>>
    /\ service = "realtime"
    /\ address_parser = "none"
    /\ StoreInitial(NoStats)
    /\ worker = "idle"
    /\ snap = <<>>
    /\ finals = 0
    /\ cleared = FALSE
    /\ after_error = FALSE

(***************************************************************************)
(* Digit normalisation: the first part of _extract_numbers_only, the same *)
(* in PostalCodeService and AddressExtractor.                              *)
(***************************************************************************)
\* one character under str.maketrans(full-width digits, ASCII digits)
fullwidth_to_ascii(c) ==
    CASE c = "f0" -> "0" [] c = "f1" -> "1" [] c = "f2" -> "2" [] c = "f3" -> "3"
      [] c = "f4" -> "4" [] c = "f5" -> "5" [] c = "f6" -> "6" [] c = "f7" -> "7"
      [] c = "f8" -> "8" [] c = "f9" -> "9" [] OTHER -> c

RECURSIVE translate_fullwidth(_)
\* text.translate(...)
translate_fullwidth(s) ==
    IF s = <<>> THEN <<>>
    ELSE <<fullwidth_to_ascii(Head(s))>> \o translate_fullwidth(Tail(s))

\* the separators list, each replaced by one space, in this order
separators ==
    << <<"no">>, <<"NO">>,
       <<"HA", "II", "FU", "NN">>, <<"ha", "ii", "fu", "nn">>,
       <<"da", "xtsu", "shi", "xyu">>, <<"DA", "XTSU", "SHI", "XYU">>,
       <<"-">>, <<"cho">>, <<"minus">> >>

RECURSIVE with_space(_)
with_space(seps) ==
    IF seps = <<>> THEN <<>>
    ELSE << <<Head(seps), <<" ">> >> >> \o with_space(Tail(seps))

separator_pairs == with_space(separators)

\* the kanji_to_num dict, in its insertion order (the order of the loop)
kanji_to_num ==
    << << <<"k0">>, <<"0">> >>, << <<"k0b">>, <<"0">> >>, << <<"ZE", "RO">>, <<"0">> >>,
       << <<"k1">>, <<"1">> >>, << <<"k1b">>, <<"1">> >>,
       << <<"ii", "chi">>, <<"1">> >>, << <<"II", "CHI">>, <<"1">> >>,
       << <<"k2">>, <<"2">> >>, << <<"k2b">>, <<"2">> >>,
       << <<"ni">>, <<"2">> >>, << <<"NI">>, <<"2">> >>,
       << <<"k3">>, <<"3">> >>, << <<"k3b">>, <<"3">> >>,
       << <<"sa", "nn">>, <<"3">> >>, << <<"SA", "NN">>, <<"3">> >>,
       << <<"k4">>, <<"4">> >>, << <<"k4b">>, <<"4">> >>,
       << <<"yo", "nn">>, <<"4">> >>, << <<"YO", "NN">>, <<"4">> >>,
       << <<"shi">>, <<"4">> >>, << <<"SHI">>, <<"4">> >>,
       << <<"k5">>, <<"5">> >>, << <<"k5b">>, <<"5">> >>,
       << <<"go">>, <<"5">> >>, << <<"GO">>, <<"5">> >>,
       << <<"k6">>, <<"6">> >>, << <<"k6b">>, <<"6">> >>,
       << <<"ro", "ku">>, <<"6">> >>, << <<"RO", "KU">>, <<"6">> >>,
       << <<"k7">>, <<"7">> >>, << <<"k7b">>, <<"7">> >>,
       << <<"na", "na">>, <<"7">> >>, << <<"NA", "NA">>, <<"7">> >>,
       << <<"shi", "chi">>, <<"7">> >>, << <<"SHI", "CHI">>, <<"7">> >>,
       << <<"k8">>, <<"8">> >>, << <<"k8b">>, <<"8">> >>,
       << <<"ha", "chi">>, <<"8">> >>, << <<"HA", "CHI">>, <<"8">> >>,
       << <<"k9">>, <<"9">> >>, << <<"k9b">>, <<"9">> >>,
       << <<"ki", "xyu", "uu">>, <<"9">> >>, << <<"KI", "XYU", "UU">>, <<"9">> >>,
       << <<"ku">>, <<"9">> >>, << <<"KU">>, <<"9">> >> >>

\* a normaliser that also drops the spaces
normalize_digits_compact(text) ==
    Remove(ReplaceEach(ReplaceEach(translate_fullwidth(text), separator_pairs),
                       kanji_to_num), {" "})

\* the text after the three replacement passes
normalize_digits(text) ==
    ReplaceEach(ReplaceEach(translate_fullwidth(text), separator_pairs), kanji_to_num)

\* re.findall(r'\d', text) of the normalised text
normalized_numbers(text) ==
    Filter(normalize_digits(text), AsciiDigits \cup FullWidthDigits)

\* PostalCodeService._extract_numbers_only: exactly 7 digits, or None
PCS_extract_numbers_only(text) ==
    LET numbers == normalized_numbers(text)
    IN  IF Len(numbers) = 7 THEN numbers ELSE NoneStr

\* AddressExtractor._extract_numbers_only: 7 digits, 6 digits zero-padded, or None
AE_extract_numbers_only(text) ==
    LET numbers == normalized_numbers(text)
    IN  IF Len(numbers) = 7 THEN numbers
        ELSE IF Len(numbers) = 6 THEN <<"0">> \o numbers
        ELSE NoneStr

(***************************************************************************)
(* The four literal patterns of extract_postal_code.  Each operator gives *)
(* the set of start positions at which the pattern matches; re.search     *)
(* takes the least.  Match(k, text, i) is group 1 of the match at i.      *)
(***************************************************************************)
\* r'(\d{3}[-<cho>]\d{4})'
P1At(s, i) ==
    /\ i + 7 <= Len(s)
    /\ AllDigits(s, i, i + 2)
    /\ IsHyphen(s[i + 3])
    /\ AllDigits(s, i + 4, i + 7)

\* r'(?<!\d)(\d{7})(?!\d)'
P2At(s, i) ==
    /\ i + 6 <= Len(s)
    /\ AllDigits(s, i, i + 6)
    /\ (i > 1 => ~IsDigit(s[i - 1]))
    /\ (i + 7 <= Len(s) => ~IsDigit(s[i + 7]))

\* the length of the run of white space that starts at position i
RECURSIVE SpaceRun(_, _)
SpaceRun(s, i) ==
    IF i <= Len(s) /\ IsSpace(s[i]) THEN 1 + SpaceRun(s, i + 1) ELSE 0

\* r'(\d{3}\s+\d{4})'
P3At(s, i) ==
    /\ AllDigits(s, i, i + 2)
    /\ SpaceRun(s, i + 3) >= 1
    /\ AllDigits(s, i + 3 + SpaceRun(s, i + 3), i + 6 + SpaceRun(s, i + 3))

\* r'<yubin>\s*(\d{3}[-<cho>]?\d{4})': j is where the digits start
P4Digits(s, i) == i + 1 + SpaceRun(s, i + 1)

P4Hyphenated(s, i) ==
    LET j == P4Digits(s, i)
    IN  /\ AllDigits(s, j, j + 2)
        /\ j + 3 <= Len(s)
        /\ IsHyphen(s[j + 3])
        /\ AllDigits(s, j + 4, j + 7)

P4Plain(s, i) == AllDigits(s, P4Digits(s, i), P4Digits(s, i) + 6)

P4At(s, i) ==
    /\ i <= Len(s)
    /\ s[i] = "yubin"
    /\ (P4Hyphenated(s, i) \/ P4Plain(s, i))

PatternAt(k, s, i) ==
    CASE k = 1 -> P1At(s, i)
      [] k = 2 -> P2At(s, i)
      [] k = 3 -> P3At(s, i)
      [] k = 4 -> P4At(s, i)

PatternGroup(k, s, i) ==
    CASE k = 1 -> SubSeq(s, i, i + 7)
      [] k = 2 -> SubSeq(s, i, i + 6)
      [] k = 3 -> SubSeq(s, i, i + 6 + SpaceRun(s, i + 3))
      [] k = 4 -> IF P4Hyphenated(s, i)
                  THEN SubSeq(s, P4Digits(s, i), P4Digits(s, i) + 7)
                  ELSE SubSeq(s, P4Digits(s, i), P4Digits(s, i) + 6)

PatternMatches(k, s) == {i \in 1..Len(s) : PatternAt(k, s, i)}

\* re.search(pattern k, text).group(1), or NoneStr
PatternSearch(k, s) ==
    IF PatternMatches(k, s) = {} THEN NoneStr
    ELSE PatternGroup(k, s, Min(PatternMatches(k, s)))

\* re.sub(r'[-<cho>\s<yubin>]', '', postal_code)
clean_postal(s) == Remove(s, {"-", "cho", " ", "fsp", "yubin"})

\* f"{cleaned[:3]}-{cleaned[3:]}"
format_postal(s) == SubSeq(s, 1, 3) \o <<"-">> \o SubSeq(s, 4, Len(s))

\* the loop over the patterns: the first pattern whose match cleans to 7 digits
RECURSIVE literal_postal(_, _)
literal_postal(text, k) ==
    IF k > 4 THEN NoneStr
    ELSE LET cleaned == clean_postal(PatternSearch(k, text))
         IN  IF PatternMatches(k, text) # {} /\ Len(cleaned) = 7
                /\ \A j \in 1..7 : IsDigit(cleaned[j])
             THEN format_postal(cleaned)
             ELSE literal_postal(text, k + 1)

\* PostalCodeService.extract_postal_code
PCS_extract_postal_code(text) ==
    IF literal_postal(text, 1) # NoneStr THEN literal_postal(text, 1)
    ELSE LET numbers_only == PCS_extract_numbers_only(text)
         IN  IF numbers_only # NoneStr /\ Len(numbers_only) = 7
             THEN format_postal(numbers_only)
             ELSE NoneStr

\* AddressExtractor.extract_postal_code
AE_extract_postal_code(text) ==
    IF literal_postal(text, 1) # NoneStr THEN literal_postal(text, 1)
    ELSE LET numbers_only == AE_extract_numbers_only(text)
         IN  IF numbers_only # NoneStr /\ Len(numbers_only) = 7
             THEN format_postal(numbers_only)
             ELSE NoneStr

(***************************************************************************)
(* SpecPostal: the extractors applied to bounded input texts.  A text is  *)
(* a concatenation of at most MaxChunks pieces of speech.                  *)
(***************************************************************************)
MaxChunks == 3

Chunks ==
    { <<"1", "5", "0">>, <<"0", "0", "1">>, <<"2">>, <<"f3">>, <<"k1">>,
      <<"no">>, <<"-">>, <<" ">>, <<"yubin">>, <<"shi", "chi">>, <<"etc">> }

RECURSIVE TextsOf(_)
TextsOf(n) ==
    IF n = 0 THEN {<<>>}
    ELSE TextsOf(n - 1) \cup {t \o c : t \in TextsOf(n - 1), c \in Chunks}

PostalTexts == TextsOf(MaxChunks)

InitPostal ==
    /\ ServiceIdle
    /\ fnText \in PostalTexts
    /\ fnCands = <<>>
    /\ fnOut = [ae |-> NoneStr, pcs |-> NoneStr]
    /\ fnPc = "input"

ExtractPostal ==
    /\ fnPc = "input"
    /\ fnOut' = [ae |-> AE_extract_postal_code(fnText),
                 pcs |-> PCS_extract_postal_code(fnText)]
    /\ fnPc' = "done"
    /\ UNCHANGED <<fnText, fnCands, config_vars, life_vars, session_vars, lookup_log, store_vars, serial_vars, thread_vars>>

NextPostal == ExtractPostal

SpecPostal == InitPostal /\ [][NextPostal]_vars

(***************************************************************************)
(* SpecSpoken: the extractors applied to the postal code 150-0001 as it is *)
(* spoken: "ichi go", with or without a long mark, a separator, three or   *)
(* four zeros each read in hiragana, in katakana or written as a kanji     *)
(* zero, and "ichi".                                                       *)
(***************************************************************************)
ZeroReadings == {<<"ze", "ro">>, <<"ZE", "RO">>, <<"k0">>}

SpokenTexts150 ==
    { <<"ii", "chi", "go">> \o long \o z0 \o sep \o z1 \o z2 \o z3 \o <<"ii", "chi">> :
        long \in {<<>>, <<"cho">>}, z0 \in ZeroReadings \cup {<<>>},
        sep \in {<<"no">>, <<"-">>, <<>>},
        z1 \in ZeroReadings, z2 \in ZeroReadings, z3 \in ZeroReadings }

InitSpoken ==
    /\ ServiceIdle
    /\ fnText \in SpokenTexts150
    /\ fnCands = <<>>
    /\ fnOut = [ae |-> NoneStr, pcs |-> NoneStr]
    /\ fnPc = "input"

SpecSpoken == InitSpoken /\ [][NextPostal]_vars

\* C3: in the fallback tier (no literal pattern matches) both extractors, the
\* one of PostalCodeService that the workflow calls and the one of
\* AddressExtractor, return '0' + digits for exactly 6 normalised digits, the
\* digits for exactly 7, and nothing for any other count (as DDD-DDDD).
C3_FallbackPadsSixDigits ==
    (fnPc = "done" /\ literal_postal(fnText, 1) = NoneStr) =>
        LET digits == normalized_numbers(fnText)
            expected == IF Len(digits) = 6 THEN format_postal(<<"0">> \o digits)
                        ELSE IF Len(digits) = 7 THEN format_postal(digits)
                        ELSE NoneStr
        IN  fnOut.ae = expected /\ fnOut.pcs = expected

(***************************************************************************)
(* CandidateSelector: ToriyamaAddressParser.get_best_address.  A candidate *)
(* is a record; its confidence is kept in hundredths (0.8 is 80), which is *)
(* exact for the sums of the scorers' weights.  An absent candidate        *)
(* (Python None) is the empty sequence, a present one a one-element        *)
(* sequence.                                                               *)
(***************************************************************************)
type_priority(type) ==
    CASE type = "toriyama_parsed" -> 3
      [] type = "fallback_parsed" -> 2
      [] type = "postal_code_detected" -> 1
      [] OTHER -> 0

\* completeness_bonus = 0.1 if addr.get('is_complete', False) else 0
completeness_bonus(addr) == IF addr.is_complete THEN 10 ELSE 0

\* a key that ranks the confidence before the type
sort_key_confidence_first(addr) ==
    <<addr.confidence + completeness_bonus(addr), type_priority(addr.type),
      Len(addr.address)>>

sort_key(addr) ==
    <<type_priority(addr.type), addr.confidence + completeness_bonus(addr),
      Len(addr.address)>>

\* Python's tuple comparison k1 < k2
KeyLess(k1, k2) ==
    \/ k1[1] < k2[1]
    \/ k1[1] = k2[1] /\ k1[2] < k2[2]
    \/ k1[1] = k2[1] /\ k1[2] = k2[2] /\ k1[3] < k2[3]

\* x placed into a list sorted in descending key order, behind every element
\* whose key is not smaller: equal keys keep their input order
RECURSIVE InsertDesc(_, _)
InsertDesc(sorted, x) ==
    IF sorted = <<>> THEN <<x>>
    ELSE IF KeyLess(sort_key(Head(sorted)), sort_key(x)) THEN <<x>> \o sorted
    ELSE <<Head(sorted)>> \o InsertDesc(Tail(sorted), x)

\* sorted(addresses, key=sort_key, reverse=True): stable
RECURSIVE SortedDesc(_)
SortedDesc(addresses) ==
    IF addresses = <<>> THEN <<>>
    ELSE InsertDesc(SortedDesc(SubSeq(addresses, 1, Len(addresses) - 1)),
                    addresses[Len(addresses)])

\* a selector that keeps the last of the candidates with the greatest key, as
\* sorted(addresses, key=sort_key)[-1] would
get_best_address_last(addresses) ==
    IF addresses = <<>> THEN <<>>
    ELSE LET top == {i \in 1..Len(addresses) :
                        \A j \in 1..Len(addresses) :
                            ~KeyLess(sort_key(addresses[i]), sort_key(addresses[j]))}
         IN  <<addresses[CHOOSE i \in top : \A j \in top : j <= i]>>

get_best_address(addresses) ==
    IF addresses = <<>> THEN <<>>
    ELSE <<Head(SortedDesc(addresses))>>

(***************************************************************************)
(* SpecSelect: the selector applied to bounded candidate lists.            *)
(***************************************************************************)
MaxCands == 3

Cand(type, address, confidence, is_complete) ==
    [type |-> type, address |-> address, confidence |-> confidence,
     is_complete |-> is_complete]

CandPool ==
    { Cand("postal_code_detected", <<"yubin", "1">>, 80, FALSE),
      Cand("postal_code_detected", <<"yubin", "2">>, 80, FALSE),
      Cand("fallback_parsed", <<"etc", "shi", "1">>, 50, FALSE),
      Cand("fallback_parsed", <<"etc", "ku">>, 80, FALSE),
      Cand("toriyama_parsed", <<"etc", "ku">>, 70, TRUE),
      Cand("toriyama_parsed", <<"etc", "shi">>, 80, FALSE) }

RECURSIVE ListsOf(_, _)
ListsOf(pool, n) ==
    IF n = 0 THEN {<<>>}
    ELSE ListsOf(pool, n - 1)
         \cup {Append(l, c) : l \in ListsOf(pool, n - 1), c \in pool}

InitSelect ==
    /\ ServiceIdle
    /\ fnText = <<>>
    /\ fnCands \in ListsOf(CandPool, MaxCands)
    /\ fnOut = [best |-> <<>>, again |-> <<>>]
    /\ fnPc = "input"

\* two calls on the same list
SelectBest ==
    /\ fnPc = "input"
    /\ fnOut' = [best |-> get_best_address(fnCands),
                 again |-> get_best_address(fnCands)]
    /\ fnPc' = "done"
    /\ UNCHANGED <<fnText, fnCands, config_vars, life_vars, session_vars, lookup_log, store_vars, serial_vars, thread_vars>>

NextSelect == SelectBest

SpecSelect == InitSelect /\ [][NextSelect]_vars

IsDash(c) == c \in {"-", "minus", "cho"}

\* [<kuten><touten>]: the two characters an address match does not cross
IsTerminator(c) == c \in {"u3002", "u3001"}

\* (?:shi|ku|machi|mura): the municipal suffix kanji
IsMunicipal(c) == c \in {"u5e02", "u533a", "u753a", "u6751"}

\* [<chou><me><machi>]
IsChome(c) == c \in {"u4e01", "u76ee", "u753a"}

\* \d+ that starts at position i: the position of its last digit (i - 1: no digit)
RECURSIVE DigitRunEnd(_, _)
DigitRunEnd(s, i) ==
    IF i >= 1 /\ i <= Len(s) /\ IsDigit(s[i]) THEN DigitRunEnd(s, i + 1) ELSE i - 1

\* text.strip() is empty
IsBlank(s) == \A k \in 1..Len(s) : IsSpace(s[k])

RECURSIVE LStrip(_)
LStrip(s) == IF s # <<>> /\ IsSpace(Head(s)) THEN LStrip(Tail(s)) ELSE s

RECURSIVE RStrip(_)
RStrip(s) ==
    IF s # <<>> /\ IsSpace(s[Len(s)]) THEN RStrip(SubSeq(s, 1, Len(s) - 1)) ELSE s

\* str.strip()
Strip(s) == RStrip(LStrip(s))

NoBuilding == [building_name |-> <<>>, room_number |-> <<>>, floor |-> <<>>,
               block_number |-> <<>>]

\* the address_info dict literal
AddressInfo(type, address, data, building_info, postal_code, confidence, is_complete, text) ==
    [type |-> type, address |-> address,
     prefecture |-> data.prefecture, city |-> data.city, town |-> data.town,
     rest |-> data.rest,
     building_name |-> building_info.building_name,
     room_number |-> building_info.room_number,
     floor |-> building_info.floor,
     block_number |-> building_info.block_number,
     postal_code |-> postal_code, confidence |-> confidence,
     is_complete |-> is_complete, source_text |-> text, total_ms |-> 0]

NoData == [prefecture |-> <<>>, city |-> <<>>, town |-> <<>>, rest |-> <<>>]

\* ---- _detect_partial_addresses
\* r'(?:<yubin>\s*)?(\d{3}[-<minus><cho>]?\d{4})' tried at position i: where
\* group 1 starts ...
PartialDigits(s, i) == IF s[i] = "yubin" THEN P4Digits(s, i) ELSE i

\* ... and where it ends (0: no match at i)
PartialEnd(s, i) ==
    LET j == PartialDigits(s, i)
    IN  IF AllDigits(s, j, j + 2) /\ j + 3 <= Len(s) /\ IsDash(s[j + 3])
           /\ AllDigits(s, j + 4, j + 7)
        THEN j + 7
        ELSE IF AllDigits(s, j, j + 6) THEN j + 6
        ELSE 0

RECURSIVE dash_to_hyphen(_)
\* re.sub(r'[-<minus><cho>]', '-', postal_code)
dash_to_hyphen(s) ==
    IF s = <<>> THEN <<>>
    ELSE <<IF IsDash(Head(s)) THEN "-" ELSE Head(s)>> \o dash_to_hyphen(Tail(s))

partial_info(text, postal_code) ==
    LET clean == dash_to_hyphen(postal_code)
    IN  IF Len(Remove(clean, {"-"})) = 7
        THEN <<AddressInfo("postal_code_detected", <<"yubin">> \o clean, NoData,
                           NoBuilding, clean, 80, FALSE, text)>>
        ELSE <<>>

\* the loop over re.finditer: the matches from position i on, left to right
RECURSIVE partial_from(_, _)
partial_from(text, i) ==
    IF i > Len(text) THEN <<>>
    ELSE LET end == PartialEnd(text, i)
         IN  IF end = 0 THEN partial_from(text, i + 1)
             ELSE partial_info(text, SubSeq(text, PartialDigits(text, i), end))
                  \o partial_from(text, end + 1)

detect_partial_addresses(text) == partial_from(text, 1)

\* ---- _extract_with_fallback_parser
\* the prefectures list, in its order (the order of the alternation)
prefectures ==
    << <<"u5317", "u6d77", "u9053">>, <<"u9752", "u68ee", "u770c">>,
       <<"u5ca9", "u624b", "u770c">>, <<"u5bae", "u57ce", "u770c">>,
       <<"u79cb", "u7530", "u770c">>, <<"u5c71", "u5f62", "u770c">>,
       <<"u798f", "u5cf6", "u770c">>, <<"u8328", "u57ce", "u770c">>,
       <<"u6803", "u6728", "u770c">>, <<"u7fa4", "u99ac", "u770c">>,
       <<"u57fc", "u7389", "u770c">>, <<"u5343", "u8449", "u770c">>,
       <<"u6771", "u4eac", "u90fd">>, <<"u795e", "u5948", "u5ddd", "u770c">>,
       <<"u65b0", "u6f5f", "u770c">>, <<"u5bcc", "u5c71", "u770c">>,
       <<"u77f3", "u5ddd", "u770c">>, <<"u798f", "u4e95", "u770c">>,
       <<"u5c71", "u68a8", "u770c">>, <<"u9577", "u91ce", "u770c">>,
       <<"u5c90", "u961c", "u770c">>, <<"u9759", "u5ca1", "u770c">>,
       <<"u611b", "u77e5", "u770c">>, <<"k3", "u91cd", "u770c">>,
       <<"u6ecb", "u8cc0", "u770c">>, <<"u4eac", "u90fd", "u5e9c">>,
       <<"u5927", "u962a", "u5e9c">>, <<"u5175", "u5eab", "u770c">>,
       <<"u5948", "u826f", "u770c">>, <<"u548c", "u6b4c", "u5c71", "u770c">>,
       <<"u9ce5", "u53d6", "u770c">>, <<"u5cf6", "u6839", "u770c">>,
       <<"u5ca1", "u5c71", "u770c">>, <<"u5e83", "u5cf6", "u770c">>,
       <<"u5c71", "u53e3", "u770c">>, <<"u5fb3", "u5cf6", "u770c">>,
       <<"u9999", "u5ddd", "u770c">>, <<"u611b", "u5a9b", "u770c">>,
       <<"u9ad8", "u77e5", "u770c">>, <<"u798f", "u5ca1", "u770c">>,
       <<"u4f50", "u8cc0", "u770c">>, <<"u9577", "u5d0e", "u770c">>,
       <<"u718a", "u672c", "u770c">>, <<"u5927", "u5206", "u770c">>,
       <<"u5bae", "u5d0e", "u770c">>, <<"u9e7f", "u5150", "u5cf6", "u770c">>,
       <<"u6c96", "u7e04", "u770c">> >>

\* the first characters of the prefecture names: no name matches elsewhere
PrefectureHeads == {prefectures[k][1] : k \in 1..Len(prefectures)}

StartsWith(s, i, w) ==
    /\ i + Len(w) - 1 <= Len(s)
    /\ \A k \in 1..Len(w) : s[i + k - 1] = w[k]

\* the first alternative of the list w that matches at position i (0: none)
FirstWordAt(s, i, w) ==
    LET matching == {k \in 1..Len(w) : StartsWith(s, i, w[k])}
    IN  IF matching = {} THEN 0 ELSE Min(matching)

\* [^<kuten><touten>]*?(?:shi|ku|machi|mura) from position p: the position of
\* the municipal suffix the lazy quantifier stops at (0: none)
MunicipalAt(s, p) ==
    LET ends == {q \in p..Len(s) :
                    /\ IsMunicipal(s[q])
                    /\ \A k \in p..(q - 1) : ~IsTerminator(s[k])}
    IN  IF ends = {} THEN 0 ELSE Min(ends)

\* the whole address_pattern tried at position i: where the match ends (0: no
\* match).  The second lazy quantifier takes nothing; the optional group
\* (?:\d+[<chou><me><machi>]...)? is taken when it matches right after the suffix.
FallbackEnd(s, i) ==
    LET k == IF s[i] \in PrefectureHeads THEN FirstWordAt(s, i, prefectures) ELSE 0
        q == IF k = 0 THEN 0 ELSE MunicipalAt(s, i + Len(prefectures[k]))
        d == DigitRunEnd(s, q + 1)
    IN  IF q = 0 THEN 0
        ELSE IF d > q /\ d + 1 <= Len(s) /\ IsChome(s[d + 1]) THEN d + 1
        ELSE q

\* _calculate_fallback_confidence, in hundredths
calculate_fallback_confidence(address_text) ==
    LET n == Len(address_text)
        total ==
            (IF n >= 10 THEN 20 ELSE 0)
          + (IF \E k \in 1..n : IsDigit(address_text[k]) THEN 20 ELSE 0)
          + (IF \E k \in 1..(n - 1) :
                    IsDigit(address_text[k]) /\ IsChome(address_text[k + 1])
             THEN 30 ELSE 0)
          + (IF \E k \in 1..n : IsMunicipal(address_text[k]) THEN 30 ELSE 0)
    IN  IF total < 100 THEN total ELSE 100

fallback_info(text, i, end) ==
    LET address_text == SubSeq(text, i, end)
        prefecture == prefectures[FirstWordAt(text, i, prefectures)]
        confidence == calculate_fallback_confidence(address_text)
    IN  IF confidence >= 30
        THEN <<AddressInfo("fallback_parsed", address_text,
                           [NoData EXCEPT !.prefecture = prefecture],
                           NoBuilding, <<>>, confidence, FALSE, text)>>
        ELSE <<>>

RECURSIVE fallback_from(_, _)
fallback_from(text, i) ==
    IF i > Len(text) THEN <<>>
    ELSE LET end == FallbackEnd(text, i)
         IN  IF end = 0 THEN fallback_from(text, i + 1)
             ELSE fallback_info(text, i, end) \o fallback_from(text, end + 1)

extract_with_fallback_parser(text) == fallback_from(text, 1)

(***************************************************************************)
(* BuildingDetailExtractor: _extract_building_details.  A pattern is a     *)
(* sequence of items, <<"run", C>> for C+ and <<"one", C>> for a literal   *)
(* or a class; in every pattern of the function the item after a C+ never  *)
(* matches a character of C, so the greedy run never gives back.           *)
(***************************************************************************)
AsciiUpper ==
    {"A", "B", "C", "D", "E", "F", "G", "H", "I", "J", "K", "L", "M",
     "N", "O", "P", "Q", "R", "S", "T", "U", "V", "W", "X", "Y", "Z"}

AsciiLower ==
    {"a", "b", "c", "d", "e", "f", "g", "h", "i", "j", "k", "l", "m",
     "n", "o", "p", "q", "r", "s", "t", "u", "v", "w", "x", "y", "z"}

Digits == <<"run", AsciiDigits \cup FullWidthDigits>>
Dash == <<"one", {"-", "minus", "cho"}>>
Lit(c) == <<"one", {c}>>

\* where the match of pat that starts at position i ends (-1: no match)
RECURSIVE MatchEnd(_, _, _)
MatchEnd(s, i, pat) ==
    IF pat = <<>> THEN i - 1
    ELSE IF i > Len(s) \/ s[i] \notin Head(pat)[2] THEN -1
    ELSE IF Head(pat)[1] = "run" /\ i + 1 <= Len(s) /\ s[i + 1] \in Head(pat)[2]
         THEN MatchEnd(s, i + 1, pat)
    ELSE MatchEnd(s, i + 1, Tail(pat))

\* re.search(pat, s).group(0), or the empty sequence
Search(s, pat) ==
    LET starts == {i \in 1..Len(s) : MatchEnd(s, i, pat) # -1}
    IN  IF starts = {} THEN <<>>
        ELSE SubSeq(s, Min(starts), MatchEnd(s, Min(starts), pat))

\* for pattern in patterns: the match of the first pattern that matches
RECURSIVE FirstSearch(_, _)
FirstSearch(s, patterns) ==
    IF patterns = <<>> THEN <<>>
    ELSE IF Search(s, Head(patterns)) # <<>> THEN Search(s, Head(patterns))
    ELSE FirstSearch(s, Tail(patterns))

block_patterns ==
    << <<Digits, Dash, Digits, Dash, Digits>>,
       <<Digits, Dash, Digits>>,
       <<Digits, Lit("u756a"), Lit("u5730"), Digits, Lit("u53f7")>>,
       <<Digits, Lit("u756a"), Digits, Lit("u53f7")>> >>

room_patterns ==
    << <<Digits, Lit("u53f7"), Lit("u5ba4")>>,
       <<Digits, Lit("u53f7")>>,
       <<Digits, Lit("F"), Dash, Digits>>,
       <<Digits, Lit("u968e"), Digits, Lit("u53f7")>>,
       <<<<"one", AsciiUpper>>, Digits>>,
       <<Digits, <<"one", AsciiUpper>>>>,
       <<Digits, Lit("-"), <<"one", AsciiUpper>>>> >>

\* the third pattern, B(\d+), yields "B" + group 1, which is its whole match
floor_patterns ==
    << <<Digits, Lit("u968e")>>,
       <<Digits, Lit("F")>>,
       <<Lit("B"), Digits>> >>

building_words_1 ==
    << <<"MA", "NN", "SHI", "XYO", "NN">>, <<"HA", "II", "TSU">>, <<"KO", "cho", "PO">>,
       <<"AA", "PA", "cho", "TO">>, <<"BI", "RU">>, <<"TA", "WA", "cho">>,
       <<"RE", "JI", "DE", "NN", "SU">>, <<"PU", "RA", "ZA">>, <<"HI", "RU", "ZU">>,
       <<"PA", "cho", "KU">>, <<"GA", "cho", "DE", "NN">>, <<"TE", "RA", "SU">>,
       <<"HO", "cho", "MU", "ZU">>, <<"VU", "u30a3", "RA">> >>

building_words_2 ==
    << <<"u8358">>, <<"u5bee">>, <<"u793e", "u5b85">>, <<"u5b98", "u820e">> >>

building_words_3 ==
    << <<"MA", "NN", "SHI", "XYO", "NN">>, <<"HA", "II", "TSU">>, <<"KO", "cho", "PO">>,
       <<"AA", "PA", "cho", "TO">>, <<"BI", "RU">>, <<"TA", "WA", "cho">>,
       <<"RE", "JI", "DE", "NN", "SU">> >>

\* the character class in front of the building words: [^\d] or [A-Za-z\s]
InNameClass(letters_only, c) ==
    IF letters_only THEN c \in AsciiUpper \cup AsciiLower \cup {" ", "fsp"}
    ELSE ~IsDigit(c)

\* the positions j at which class+ started at i can stop with a word following
NameStops(s, i, letters_only, words) ==
    {j \in i..Len(s) :
        /\ \A k \in i..j : InNameClass(letters_only, s[k])
        /\ FirstWordAt(s, j + 1, words) # 0}

Max(S) == CHOOSE m \in S : \A n \in S : n <= m

\* re.search(r'(class+(?:words))', s).group(1): leftmost start, the longest
\* class run that a word still follows, the first word of the list there
NameSearch(s, letters_only, words) ==
    LET starts == {i \in 1..Len(s) : NameStops(s, i, letters_only, words) # {}}
        i == Min(starts)
        j == Max(NameStops(s, i, letters_only, words))
    IN  IF starts = {} THEN <<>>
        ELSE SubSeq(s, i, j + Len(words[FirstWordAt(s, j + 1, words)]))

building_name_of(rest_text) ==
    IF NameSearch(rest_text, FALSE, building_words_1) # <<>>
    THEN Strip(NameSearch(rest_text, FALSE, building_words_1))
    ELSE IF NameSearch(rest_text, FALSE, building_words_2) # <<>>
    THEN Strip(NameSearch(rest_text, FALSE, building_words_2))
    ELSE Strip(NameSearch(rest_text, TRUE, building_words_3))

extract_building_details(rest_text) ==
    IF rest_text = <<>> THEN NoBuilding
    ELSE [building_name |-> building_name_of(rest_text),
          room_number |-> FirstSearch(rest_text, room_patterns),
          floor |-> FirstSearch(rest_text, floor_patterns),
          block_number |-> FirstSearch(rest_text, block_patterns)]

(***************************************************************************)
(* ConfidenceScorer and the library path.  The result of the external      *)
(* japanese_address_parser_py library is an input of the model:            *)
(*   [kind |-> "raise"]                 parse() raises                     *)
(*   [kind |-> "none"]                  no result, or one without address  *)
(*   [kind |-> "address", data |-> d]   result.address is the dict d       *)
(***************************************************************************)
has_valid_address_components(data) == data.prefecture # <<>> \/ data.city # <<>>

\* _calculate_toriyama_confidence, in hundredths
calculate_toriyama_confidence(data, building_info) ==
    LET total ==
            (IF data.prefecture # <<>> THEN 25 ELSE 0)
          + (IF data.city # <<>> THEN 25 ELSE 0)
          + (IF data.town # <<>> THEN 20 ELSE 0)
          + (IF data.rest # <<>> THEN 15 ELSE 0)
          + (IF building_info.building_name # <<>> THEN 5 ELSE 0)
          + (IF building_info.room_number # <<>> THEN 5 ELSE 0)
          + (IF building_info.floor # <<>> THEN 3 ELSE 0)
          + (IF building_info.block_number # <<>> THEN 2 ELSE 0)
    IN  IF total < 100 THEN total ELSE 100

build_full_address(data) == data.prefecture \o data.city \o data.town \o data.rest

\* a completeness test that asks for a prefecture or a city only
is_address_complete_loose(data, building_info) ==
    data.prefecture # <<>> \/ data.city # <<>>

\* _is_address_complete
is_address_complete(data, building_info) ==
    LET basic_complete ==
            /\ data.prefecture # <<>>
            /\ data.city # <<>>
            /\ (data.town # <<>> \/ data.rest # <<>>)
    IN  IF building_info.building_name # <<>> \/ building_info.room_number # <<>>
        THEN basic_complete /\ data.rest # <<>>
        ELSE basic_complete

toriyama_info(text, data) ==
    LET building_info == extract_building_details(data.rest)
    IN  AddressInfo("toriyama_parsed", build_full_address(data), data,
                    building_info, <<>>,
                    calculate_toriyama_confidence(data, building_info),
                    is_address_complete(data, building_info), text)

extract_with_toriyama_parser(text, lib) ==
    IF lib.kind = "raise" THEN extract_with_fallback_parser(text)
    ELSE (IF lib.kind = "address" /\ has_valid_address_components(lib.data)
          THEN <<toriyama_info(text, lib.data)>>
          ELSE <<>>)
         \o detect_partial_addresses(text)

\* address['processing_time']['total_ms'] = total_time_ms, for each address
with_total_ms(addresses, total_ms) ==
    [k \in 1..Len(addresses) |-> [addresses[k] EXCEPT !.total_ms = total_ms]]

\* extract_addresses_from_realtime_text; total_ms is the measured duration
extract_addresses_from_realtime_text(text, parser_available, lib, total_ms) ==
    IF IsBlank(text) THEN <<>>
    ELSE with_total_ms(IF parser_available
                       THEN extract_with_toriyama_parser(text, lib)
                       ELSE extract_with_fallback_parser(text),
                       total_ms)

(***************************************************************************)
(* StreamAggregator: the handlers of RealtimeSpeechService (RT_) and of    *)
(* WebRTCSpeechService (WR_), each as the effect of one complete call on   *)
(* the store.                                                              *)
(***************************************************************************)
RECURSIVE GCD(_, _)
GCD(a, b) == IF b = 0 THEN a ELSE GCD(b, a % b)

\* the fraction n / d in lowest terms
Fraction(n, d) == <<n \div GCD(n, d), d \div GCD(n, d)>>

\* an update that takes the mean of the old average and the new duration
RT_update_performance_stats_halving(stats, total_ms) ==
    [stats EXCEPT
        !.total_extractions = @ + 1,
        !.min_time_ms = IF total_ms < @ THEN total_ms ELSE @,
        !.max_time_ms = IF total_ms > @ THEN total_ms ELSE @,
        !.avg_time_ms = Fraction(stats.avg_time_ms[1] + total_ms * stats.avg_time_ms[2],
                                 2 * stats.avg_time_ms[2]),
        !.fast_extractions = IF total_ms < 500 THEN @ + 1 ELSE @]

\* RealtimeSpeechService._update_performance_stats
RT_update_performance_stats(stats, total_ms) ==
    LET count == stats.total_extractions + 1
        old_avg == stats.avg_time_ms
    IN  [stats EXCEPT
            !.total_extractions = count,
            !.min_time_ms = IF total_ms < @ THEN total_ms ELSE @,
            !.max_time_ms = IF total_ms > @ THEN total_ms ELSE @,
            !.avg_time_ms = Fraction(old_avg[1] * (count - 1) + total_ms * old_avg[2],
                                     old_avg[2] * count),
            !.fast_extractions = IF total_ms < 500 THEN @ + 1 ELSE @]

\* WebRTCSpeechService._update_shared_performance_stats
WR_update_shared_performance_stats(stats, total_time) ==
    IF stats = NoStats \/ total_time <= 0 THEN stats
    ELSE [stats EXCEPT
            !.total_extractions = @ + 1,
            !.total_time_ms = @ + total_time,
            !.fast_extractions = IF total_time < 500 THEN @ + 1 ELSE @,
            !.min_time_ms = IF total_time < @ THEN total_time ELSE @,
            !.max_time_ms = IF total_time > @ THEN total_time ELSE @,
            !.avg_time_ms = Fraction(stats.total_time_ms + total_time,
                                     stats.total_extractions + 1)]

\* what the parser set on the service returns for text
parse_text(text, lib, total_ms) ==
    extract_addresses_from_realtime_text(text, address_parser = "toriyama", lib, total_ms)

\* the call of extract_addresses_from_realtime_text raises
ParserRaises(lib) == lib.kind = "error"

\* a service that empties the candidates when the parser call raises
RT_extract_addresses_from_text_emptying(text, lib, total_ms) ==
    IF address_parser = "none" \/ IsBlank(text)
    THEN UNCHANGED <<extracted_addresses, best_address, performance_stats>>
    ELSE LET addresses == IF ParserRaises(lib) THEN <<>>
                          ELSE parse_text(text, lib, total_ms)
             best == get_best_address(addresses)
         IN  /\ extracted_addresses' = addresses
             /\ best_address' = best
             /\ performance_stats' =
                    IF addresses # <<>>
                    THEN RT_update_performance_stats(performance_stats, best[1].total_ms)
                    ELSE performance_stats

\* RealtimeSpeechService._extract_addresses_from_text; its except branch only
\* prints
RT_extract_addresses_from_text(text, lib, total_ms) ==
    IF address_parser = "none" \/ IsBlank(text) \/ ParserRaises(lib)
    THEN UNCHANGED <<extracted_addresses, best_address, performance_stats>>
    ELSE LET addresses == parse_text(text, lib, total_ms)
             best == get_best_address(addresses)
         IN  /\ extracted_addresses' = addresses
             /\ best_address' = best
             /\ performance_stats' =
                    IF addresses # <<>>
                    THEN RT_update_performance_stats(performance_stats, best[1].total_ms)
                    ELSE performance_stats

\* a handler that stores the final transcript in place of the accumulated text
RT_assign_final(text, transcript) == transcript \o <<" ">>

\* a handler that puts the final transcript in front of the accumulated text
RT_prepend_final(text, transcript) == transcript \o <<" ">> \o text

\* st.session_state[all_final_key] += transcript + " "
RT_append_final(text, transcript) == text \o transcript \o <<" ">>

\* RealtimeSpeechService._handle_recognition_result
RT_handle_recognition_result(transcript, is_final, lib, total_ms) ==
    /\ IF is_final
       THEN /\ final_text' = transcript
            /\ all_final_text' = RT_append_final(all_final_text, transcript)
            /\ interim_text' = <<>>
            /\ IF address_parser # "none"
               THEN RT_extract_addresses_from_text(
                        RT_append_final(all_final_text, transcript), lib, total_ms)
               ELSE UNCHANGED <<extracted_addresses, best_address, performance_stats>>
       ELSE /\ interim_text' = transcript
            /\ UNCHANGED <<final_text, all_final_text, extracted_addresses,
                           best_address, performance_stats>>
    /\ recognition_active' = TRUE
    /\ UNCHANGED error_message

\* WebRTCSpeechService._extract_addresses_from_shared_text; the error message
\* of its except branch is stored by WR_handle_recognition_result below
WR_extract_addresses_from_shared_text(text, lib, total_ms) ==
    IF ParserRaises(lib)
    THEN UNCHANGED <<extracted_addresses, best_address, performance_stats>>
    ELSE
    LET addresses == parse_text(text, lib, total_ms)
        best == get_best_address(addresses)
    IN  /\ extracted_addresses' = addresses
        /\ best_address' = IF addresses # <<>> THEN best ELSE best_address
        /\ performance_stats' =
               IF addresses # <<>>
               THEN WR_update_shared_performance_stats(performance_stats, best[1].total_ms)
               ELSE performance_stats

\* WebRTCSpeechService._handle_recognition_result: what it writes ...
WR_store_transcript(transcript, is_final, lib, total_ms) ==
    /\ IF is_final
       THEN /\ all_final_text' = all_final_text \o transcript
            /\ interim_text' = <<>>
            /\ IF address_parser # "none"
               THEN WR_extract_addresses_from_shared_text(
                        all_final_text \o transcript, lib, total_ms)
               ELSE UNCHANGED <<extracted_addresses, best_address, performance_stats>>
       ELSE /\ interim_text' = transcript
            /\ UNCHANGED <<all_final_text, extracted_addresses, best_address,
                           performance_stats>>
    /\ UNCHANGED <<final_text, recognition_active>>

\* a handler that empties the stored error when it has handled a transcript
WR_handle_recognition_result_clearing(transcript, is_final, lib, total_ms) ==
    /\ WR_store_transcript(transcript, is_final, lib, total_ms)
    /\ error_message' = ""

\* ... and the error, which it leaves as it is unless the extraction raised
WR_handle_recognition_result(transcript, is_final, lib, total_ms) ==
    /\ WR_store_transcript(transcript, is_final, lib, total_ms)
    /\ error_message' = IF is_final /\ address_parser # "none" /\ ParserRaises(lib)
                        THEN "extraction error"
                        ELSE error_message

\* RealtimeSpeechService._handle_recognition_error
RT_handle_recognition_error(message) ==
    /\ error_message' = message
    /\ recognition_active' = FALSE
    /\ UNCHANGED <<final_text, all_final_text, interim_text, extracted_addresses,
                   best_address, performance_stats>>

\* str(e) of the exceptions the recognition stream raises: one of those with
\* "Exceeded maximum allowed stream duration" or "400" in them, and another
StreamErrors == {"stream error", "400 Bad Request"}

IsDurationLimit(error_msg) ==
    error_msg \in {"Exceeded maximum allowed stream duration", "400 Bad Request"}

\* self.auto_reconnect_enabled, set in __init__ and never assigned again
auto_reconnect_enabled == TRUE

\* the except branch of run_recognition: with the flag set, a duration-limit
\* error leads to _restart_streaming() and a nested run_recognition(), and
\* nothing is stored
RT_run_recognition_except(error_msg, flag) ==
    IF IsDurationLimit(error_msg)
    THEN IF flag /\ auto_reconnect_enabled
         THEN UNCHANGED <<final_text, all_final_text, interim_text, extracted_addresses,
                          best_address, performance_stats, error_message,
                          recognition_active>>
         ELSE RT_handle_recognition_error("time limit")
    ELSE RT_handle_recognition_error(error_msg)

\* the thread goes on with a new stream after the exception
RT_reconnects(error_msg, flag) ==
    IsDurationLimit(error_msg) /\ flag /\ auto_reconnect_enabled

\* WebRTCSpeechService._handle_recognition_error
WR_handle_recognition_error(message) ==
    /\ error_message' = message
    /\ UNCHANGED <<final_text, all_final_text, interim_text, extracted_addresses,
                   best_address, recognition_active, performance_stats>>

\* RealtimeSpeechService.clear_session_state: the keys of keys_to_clear and
\* recognition_active ...
RT_keys_to_clear ==
    /\ interim_text' = <<>>
    /\ final_text' = <<>>
    /\ all_final_text' = <<>>
    /\ extracted_addresses' = <<>>
    /\ best_address' = <<>>
    /\ error_message' = ""
    /\ recognition_active' = FALSE

\* ... and no other key
RT_clear_session_state ==
    /\ RT_keys_to_clear
    /\ UNCHANGED performance_stats

\* WebRTCSpeechService.clear_session_state
WR_clear_session_state ==
    /\ all_final_text' = <<>>
    /\ interim_text' = <<>>
    /\ extracted_addresses' = <<>>
    /\ best_address' = <<>>
    /\ error_message' = ""
    /\ performance_stats' = IF performance_stats # NoStats THEN WR_InitialStats
                            ELSE performance_stats
    /\ UNCHANGED <<final_text, recognition_active>>

\* RealtimeSpeechService._initialize_session_state: only the keys that are
\* missing are set, and a missing key reads like its initial value except for
\* performance_stats
RT_initialize_session_state(stats) ==
    IF stats = NoStats THEN RT_InitialStats ELSE stats

\* RealtimeSpeechService.get_session_state_data: the fields of the returned
\* dict that the store holds (not last_update_time and reconnecting)
RT_get_session_state_data ==
    [interim_text |-> interim_text, final_text |-> final_text,
     all_final_text |-> all_final_text,
     extracted_addresses |-> extracted_addresses, best_address |-> best_address,
     recognition_active |-> recognition_active, error_message |-> error_message,
     performance_stats |-> performance_stats]

\* WebRTCSpeechService.get_session_state_data (without mic_volume); the same
\* values are mirrored into st.session_state
WR_get_session_state_data ==
    [all_final_text |-> all_final_text, interim_text |-> interim_text,
     extracted_addresses |-> extracted_addresses, best_address |-> best_address,
     error_message |-> error_message, performance_stats |-> performance_stats]

(***************************************************************************)
(* SpecAgg: one service driven serially, as the two tabs of app.py and     *)
(* run_component drive it: recording is started by clear_session_state     *)
(* followed by the start call, every handler runs to completion, and the   *)
(* worker delivers events only between start and stop.                     *)
(***************************************************************************)
MaxFinals == 2

Transcripts ==
    { <<"1", "5", "0", "-", "0", "0", "0", "1">>,
      <<"u6771", "u4eac", "u90fd", "u6e0b", "u8c37", "u533a", "1", "u4e01", "u76ee">> }

TokyoShibuya ==
    [prefecture |-> <<"u6771", "u4eac", "u90fd">>, city |-> <<"u6e0b", "u8c37", "u533a">>,
     town |-> <<>>, rest |-> <<>>]

LibResults ==
    { [kind |-> "raise"], [kind |-> "none"],
      [kind |-> "address", data |-> TokyoShibuya] }

\* measured total_ms of one extraction: below and above the 500 ms mark
Durations == {100, 700}

InitAgg ==
    /\ FnIdle
    /\ ThreadsIdle
    /\ LifeIdle
    /\ SessionInitial
    /\ lookup_log = <<>>
    /\ service \in {"realtime", "webrtc"}
    /\ address_parser \in {"none", "fallback", "toriyama"}
    /\ \E stats \in {NoStats, WR_InitialStats} :
          /\ service = "realtime" => stats = NoStats
          /\ StoreInitial(stats)
    /\ worker = "idle"
    /\ snap = <<>>
    /\ finals = 0
    /\ cleared = FALSE
    /\ after_error = FALSE

\* the start button: clear_session_state(), then start_streaming_with_streamlit()
\* (realtime); start_streaming_recognition(), which clears first (webrtc)
StartRecording ==
    /\ worker = "idle"
    /\ IF service = "realtime"
       THEN /\ RT_keys_to_clear
            /\ performance_stats' = RT_initialize_session_state(performance_stats)
       ELSE WR_clear_session_state
    /\ worker' = "running"
    /\ snap' = <<>>
    /\ cleared' = TRUE
    /\ after_error' = FALSE
    /\ UNCHANGED <<fn_vars, config_vars, life_vars, session_vars, lookup_log, thread_vars, finals>>

\* the stop button: stop_streaming_recognition()
StopRecording ==
    /\ worker # "idle"
    /\ worker' = "idle"
    /\ recognition_active' = FALSE
    /\ snap' = <<>>
    /\ UNCHANGED <<final_text, all_final_text, interim_text, extracted_addresses,
                   best_address, error_message, performance_stats>>
    /\ UNCHANGED <<fn_vars, config_vars, life_vars, session_vars, lookup_log, thread_vars, finals, cleared, after_error>>

\* one final transcript event delivered by the worker and handled to completion
OnFinal(transcript, lib, total_ms) ==
    /\ worker = "running"
    /\ finals < MaxFinals
    /\ IF service = "realtime"
       THEN RT_handle_recognition_result(transcript, TRUE, lib, total_ms)
       ELSE WR_handle_recognition_result(transcript, TRUE, lib, total_ms)
    /\ finals' = finals + 1
    /\ snap' = <<>>
    /\ cleared' = FALSE
    /\ after_error' = (error_message # "")
    /\ UNCHANGED <<fn_vars, config_vars, life_vars, session_vars, lookup_log, thread_vars, worker>>

\* an interim event handled the way a final one is
OnInterimAsFinal(transcript) ==
    /\ worker = "running"
    /\ IF service = "realtime"
       THEN RT_handle_recognition_result(transcript, TRUE, [kind |-> "none"], 0)
       ELSE WR_handle_recognition_result(transcript, TRUE, [kind |-> "none"], 0)
    /\ snap' = <<>>
    /\ cleared' = FALSE
    /\ after_error' = (error_message # "")
    /\ UNCHANGED <<fn_vars, config_vars, life_vars, session_vars, lookup_log, thread_vars, worker, finals>>

\* one interim transcript event
OnInterim(transcript) ==
    /\ worker = "running"
    /\ IF service = "realtime"
       THEN RT_handle_recognition_result(transcript, FALSE, [kind |-> "none"], 0)
       ELSE WR_handle_recognition_result(transcript, FALSE, [kind |-> "none"], 0)
    /\ snap' = <<>>
    /\ cleared' = FALSE
    /\ after_error' = (error_message # "")
    /\ UNCHANGED <<fn_vars, config_vars, life_vars, session_vars, lookup_log, thread_vars, worker, finals>>

\* the stream fails: the realtime worker stores the error and ends, or goes on
\* with a new stream after a duration-limit error; the webrtc worker stores the
\* error and is replaced by a new one (the finally block)
StreamError(error_msg) ==
    /\ worker = "running"
    /\ IF service = "realtime"
       THEN /\ RT_run_recognition_except(error_msg, TRUE)
            /\ worker' = IF RT_reconnects(error_msg, TRUE) THEN "running" ELSE "ended"
       ELSE /\ WR_handle_recognition_error(error_msg)
            /\ worker' = "running"
    /\ snap' = <<>>
    /\ IF service = "realtime" /\ RT_reconnects(error_msg, TRUE)
       THEN UNCHANGED <<cleared, after_error>>
       ELSE cleared' = FALSE /\ after_error' = FALSE
    /\ UNCHANGED <<fn_vars, config_vars, life_vars, session_vars, lookup_log, thread_vars, finals>>

\* webrtc only: _should_restart_streaming() holds at a response; the timer is
\* not reset, so every later worker stops at its first response as well
TimeLimit ==
    /\ worker = "running"
    /\ service = "webrtc"
    /\ WR_handle_recognition_error("time limit")
    /\ worker' = "ended"
    /\ snap' = <<>>
    /\ cleared' = FALSE
    /\ after_error' = FALSE
    /\ UNCHANGED <<fn_vars, config_vars, life_vars, session_vars, lookup_log, thread_vars, finals>>

\* the reset-all button of tab 2: stop if recording, then clear_session_state()
ResetAll ==
    /\ IF service = "realtime" THEN RT_clear_session_state ELSE WR_clear_session_state
    /\ worker' = "idle"
    /\ snap' = <<>>
    /\ cleared' = TRUE
    /\ after_error' = FALSE
    /\ UNCHANGED <<fn_vars, config_vars, life_vars, session_vars, lookup_log, thread_vars, finals>>

\* the poll of the page: get_session_state_data()
Snapshot ==
    /\ snap = <<>>
    /\ snap' = <<IF service = "realtime" THEN RT_get_session_state_data
                 ELSE WR_get_session_state_data>>
    /\ UNCHANGED <<fn_vars, config_vars, life_vars, session_vars, lookup_log, thread_vars, store_vars, worker, finals, cleared,
                   after_error>>

NextAgg ==
    \/ StartRecording
    \/ StopRecording
    \/ \E transcript \in Transcripts, lib \in LibResults, total_ms \in Durations :
            OnFinal(transcript, lib, total_ms)
    \/ \E transcript \in Transcripts : OnInterim(transcript)
    \/ \E error_msg \in StreamErrors : StreamError(error_msg)
    \/ TimeLimit
    \/ ResetAll
    \/ Snapshot

SpecAgg == InitAgg /\ [][NextAgg]_vars

(***************************************************************************)
(* SpecRaise: the serial aggregator whose parser call can raise, with one  *)
(* measured duration.                                                      *)
(***************************************************************************)
ParserResults == LibResults \cup {[kind |-> "error"]}

NextRaise ==
    \/ StartRecording
    \/ StopRecording
    \/ \E transcript \in Transcripts, lib \in ParserResults :
            OnFinal(transcript, lib, 100)
    \/ \E transcript \in Transcripts : OnInterim(transcript)
    \/ Snapshot

SpecRaise == InitAgg /\ [][NextRaise]_vars

IsPrefix(s, t) == Len(s) <= Len(t) /\ SubSeq(t, 1, Len(s)) = s

\* C5: between two resets (clear_session_state, alone or as the first part of
\* starting a recording) no step shortens or rewrites the accumulated final
\* text: the text before any other step is a prefix of the text after it.
C5_FinalTextOnlyExtended ==
    [][StartRecording \/ ResetAll \/ IsPrefix(all_final_text, all_final_text')]_vars

\* two final events of one recording have been accumulated
C5_Witness ==
    /\ worker = "running"
    /\ \E t1 \in Transcripts, t2 \in Transcripts :
          all_final_text \in {t1 \o t2, t1 \o <<" ">> \o t2 \o <<" ">>}

\* the counters of a performance_stats value are the initial ones
StatsInitial(stats) ==
    \/ stats = NoStats
    \/ /\ stats.total_extractions = 0
       /\ stats.fast_extractions = 0
       /\ stats.avg_time_ms = <<0, 1>>

\* C6: a snapshot taken after clear_session_state, before any further event,
\* shows every field at its initial value: empty texts, no candidates, no best
\* candidate, no error, and performance counters of 0.
C6_SnapshotAfterResetInitial ==
    (cleared /\ snap # <<>>) =>
        /\ snap[1].all_final_text = <<>>
        /\ snap[1].interim_text = <<>>
        /\ snap[1].extracted_addresses = <<>>
        /\ snap[1].best_address = <<>>
        /\ snap[1].error_message = ""
        /\ StatsInitial(snap[1].performance_stats)

InitConc ==
    /\ FnIdle
    /\ service = "realtime"
    /\ address_parser \in {"none", "fallback", "toriyama"}
    /\ StoreInitial(RT_InitialStats)
    /\ worker = "running"
    /\ snap = <<>>
    /\ finals = 0
    /\ cleared = FALSE
    /\ after_error = FALSE
    /\ ThreadsIdle
    /\ LifeIdle
    /\ SessionInitial
    /\ lookup_log = <<>>

\* st.session_state[final_key] = transcript, of a final result
P_FinalText(transcript) ==
    /\ producer.pc = "idle"
    /\ finals < MaxFinals
    /\ final_text' = transcript
    /\ producer' = [producer EXCEPT !.pc = "read_all", !.transcript = transcript]
    /\ finals' = finals + 1
    /\ UNCHANGED <<all_final_text, interim_text, extracted_addresses, best_address,
                   error_message, recognition_active, performance_stats>>
    /\ UNCHANGED <<fn_vars, config_vars, life_vars, session_vars, lookup_log, worker, snap, cleared, after_error,
                   script, since_wipe, wiped>>

\* st.session_state[all_final_key] += ...: the read
P_ReadAll ==
    /\ producer.pc = "read_all"
    /\ producer' = [producer EXCEPT !.pc = "write_all", !.tmp = all_final_text]
    /\ UNCHANGED <<fn_vars, config_vars, life_vars, session_vars, lookup_log, store_vars, serial_vars, script,
                   since_wipe, wiped>>

\* st.session_state[all_final_key] += ...: the write
P_WriteAll ==
    /\ producer.pc = "write_all"
    /\ all_final_text' = RT_append_final(producer.tmp, producer.transcript)
    /\ since_wipe' = RT_append_final(since_wipe, producer.transcript)
    /\ producer' = [producer EXCEPT !.pc = "read_current", !.tmp = <<>>]
    /\ UNCHANGED <<final_text, interim_text, extracted_addresses, best_address,
                   error_message, recognition_active, performance_stats>>
    /\ UNCHANGED <<fn_vars, config_vars, life_vars, session_vars, lookup_log, serial_vars, script, wiped>>

\* current_text = st.session_state[all_final_key]
P_ReadCurrent ==
    /\ producer.pc = "read_current"
    /\ producer' = [producer EXCEPT !.pc = "interim", !.current_text = all_final_text]
    /\ UNCHANGED <<fn_vars, config_vars, life_vars, session_vars, lookup_log, store_vars, serial_vars, script,
                   since_wipe, wiped>>

\* st.session_state[interim_key] = "", then _extract_addresses_from_text's
\* early return
P_Interim ==
    /\ producer.pc = "interim"
    /\ interim_text' = <<>>
    /\ producer' = [producer EXCEPT
                       !.pc = IF address_parser = "none" \/ IsBlank(producer.current_text)
                              THEN "active" ELSE "addresses"]
    /\ UNCHANGED <<final_text, all_final_text, extracted_addresses, best_address,
                   error_message, recognition_active, performance_stats>>
    /\ UNCHANGED <<fn_vars, config_vars, life_vars, session_vars, lookup_log, serial_vars, script, since_wipe, wiped>>

\* addresses = extract_addresses_from_realtime_text(text);
\* st.session_state[addresses_key] = addresses
P_Addresses(lib, total_ms) ==
    /\ producer.pc = "addresses"
    /\ LET addresses == parse_text(producer.current_text, lib, total_ms)
       IN  /\ extracted_addresses' = addresses
           /\ producer' = [producer EXCEPT !.pc = "best", !.addresses = addresses]
    /\ UNCHANGED <<final_text, all_final_text, interim_text, best_address,
                   error_message, recognition_active, performance_stats>>
    /\ UNCHANGED <<fn_vars, config_vars, life_vars, session_vars, lookup_log, serial_vars, script, since_wipe, wiped>>

\* st.session_state[best_address_key] = best_address, or None
P_Best ==
    /\ producer.pc = "best"
    /\ best_address' = get_best_address(producer.addresses)
    /\ producer' = [producer EXCEPT
                       !.pc = IF producer.addresses # <<>> THEN "stats" ELSE "active"]
    /\ UNCHANGED <<final_text, all_final_text, interim_text, extracted_addresses,
                   error_message, recognition_active, performance_stats>>
    /\ UNCHANGED <<fn_vars, config_vars, life_vars, session_vars, lookup_log, serial_vars, script, since_wipe, wiped>>

\* self._update_performance_stats(best_address['processing_time'])
P_Stats ==
    /\ producer.pc = "stats"
    /\ performance_stats' =
           RT_update_performance_stats(
               performance_stats, get_best_address(producer.addresses)[1].total_ms)
    /\ producer' = [producer EXCEPT !.pc = "active"]
    /\ UNCHANGED <<final_text, all_final_text, interim_text, extracted_addresses,
                   best_address, error_message, recognition_active>>
    /\ UNCHANGED <<fn_vars, config_vars, life_vars, session_vars, lookup_log, serial_vars, script, since_wipe, wiped>>

\* st.session_state[active_key] = True; the handler returns
P_Active ==
    /\ producer.pc = "active"
    /\ recognition_active' = TRUE
    /\ producer' = ProducerIdle
    /\ UNCHANGED <<final_text, all_final_text, interim_text, extracted_addresses,
                   best_address, error_message, performance_stats>>
    /\ UNCHANGED <<fn_vars, config_vars, life_vars, session_vars, lookup_log, serial_vars, script, since_wipe, wiped>>

\* st.session_state[interim_key] = transcript, of an interim result
P_InterimResult(transcript) ==
    /\ producer.pc = "idle"
    /\ interim_text' = transcript
    /\ producer' = [producer EXCEPT !.pc = "active"]
    /\ UNCHANGED <<final_text, all_final_text, extracted_addresses, best_address,
                   error_message, recognition_active, performance_stats>>
    /\ UNCHANGED <<fn_vars, config_vars, life_vars, session_vars, lookup_log, serial_vars, script, since_wipe, wiped>>

\* the keys get_session_state_data reads, in its order: those of the
\* accumulated text and of what is extracted from it.  The reads of the other
\* keys of its list change nothing and are left out.
snapshot_keys == <<"all_final_text", "extracted_addresses", "best_address">>

\* the keys clear_session_state writes, in its order
keys_to_clear ==
    <<"interim_text", "final_text", "all_final_text", "extracted_addresses",
      "best_address", "error_message", "recognition_active">>

\* st.session_state.get(full_key, "")
SessionGet(key) ==
    CASE key = "interim_text" -> interim_text
      [] key = "final_text" -> final_text
      [] key = "all_final_text" -> all_final_text
      [] key = "extracted_addresses" -> extracted_addresses
      [] key = "best_address" -> best_address
      [] key = "recognition_active" -> recognition_active
      [] key = "error_message" -> error_message
      [] key = "performance_stats" -> performance_stats

\* the value clear_session_state stores under key
ClearedValue(key) ==
    CASE key \in {"interim_text", "final_text", "all_final_text",
                  "extracted_addresses", "best_address"} -> <<>>
      [] key = "error_message" -> ""
      [] key = "recognition_active" -> FALSE

\* st.session_state[full_key] = value
SessionSet(key, value) ==
    /\ interim_text' = IF key = "interim_text" THEN value ELSE interim_text
    /\ final_text' = IF key = "final_text" THEN value ELSE final_text
    /\ all_final_text' = IF key = "all_final_text" THEN value ELSE all_final_text
    /\ extracted_addresses' =
           IF key = "extracted_addresses" THEN value ELSE extracted_addresses
    /\ best_address' = IF key = "best_address" THEN value ELSE best_address
    /\ error_message' = IF key = "error_message" THEN value ELSE error_message
    /\ recognition_active' =
           IF key = "recognition_active" THEN value ELSE recognition_active
    /\ UNCHANGED performance_stats

\* the key the script thread reads or writes next in a call over keys
NextKey(call) == IF script.call = call THEN script.key ELSE 1

\* get_session_state_data: one pass of its loop; the dict is returned after
\* the last key
S_Read ==
    /\ script.call \in {"none", "returned", "snapshot"}
    /\ LET k == NextKey("snapshot")
           data == IF script.call = "snapshot" THEN script.data ELSE <<>>
       IN  script' = [call |-> IF k = Len(snapshot_keys) THEN "returned" ELSE "snapshot",
                      key |-> IF k = Len(snapshot_keys) THEN 0 ELSE k + 1,
                      data |-> Append(data, SessionGet(snapshot_keys[k]))]
    /\ UNCHANGED <<fn_vars, config_vars, life_vars, session_vars, lookup_log, store_vars, serial_vars, producer,
                   since_wipe, wiped>>

\* clear_session_state: one pass of its loop, and the write of
\* recognition_active that follows the loop
S_Clear ==
    /\ script.call \in {"none", "returned", "clear"}
    /\ LET k == NextKey("clear")
       IN  /\ SessionSet(keys_to_clear[k], ClearedValue(keys_to_clear[k]))
           /\ since_wipe' = IF keys_to_clear[k] = "all_final_text" THEN <<>>
                            ELSE since_wipe
           /\ script' = IF k = Len(keys_to_clear) THEN ScriptIdle
                        ELSE [call |-> "clear", key |-> k + 1, data |-> <<>>]
    /\ wiped' = TRUE
    /\ UNCHANGED <<fn_vars, config_vars, life_vars, session_vars, lookup_log, serial_vars, producer>>

Producer ==
    \/ \E transcript \in Transcripts : P_FinalText(transcript)
    \/ P_ReadAll
    \/ P_WriteAll
    \/ P_ReadCurrent
    \/ P_Interim
    \/ \E lib \in LibResults, total_ms \in Durations : P_Addresses(lib, total_ms)
    \/ P_Best
    \/ P_Stats
    \/ P_Active
    \/ \E transcript \in Transcripts : P_InterimResult(transcript)

NextConc == Producer \/ S_Read \/ S_Clear

SpecConc == InitConc /\ [][NextConc]_vars

\* (text, addresses, best) is a state of the three fields that the handlers
\* run one after the other can leave: the candidates are those extracted from
\* the text, and best is the selected one of them
SerialTriple(text, addresses, best) ==
    IF address_parser = "none"
    THEN addresses = <<>> /\ best = <<>>
    ELSE \E lib \in LibResults, total_ms \in Durations :
            /\ addresses = parse_text(text, lib, total_ms)
            /\ best = get_best_address(addresses)

\* C2: a snapshot taken while a final transcript event is handled returns the
\* (finalText, candidates, best) of the state before the event or of the state
\* after it, never a mix: with no reset in the run, the three fields of every
\* returned dict are the text of some state and the candidates and best
\* extracted from that text.
C2_SnapshotNeverTorn ==
    (script.call = "returned" /\ ~wiped) =>
        SerialTriple(script.data[1], script.data[2], script.data[3])

\* C7: a reset and a transcript event that run concurrently leave the state of
\* one of their two serial orders: once reset has returned and no event is being
\* handled, the final text is made of the transcripts appended after the reset
\* cleared it, and of nothing older.
C7_ResetTranscriptAtomic ==
    (wiped /\ script.call # "clear" /\ producer.pc = "idle") =>
        all_final_text = since_wipe

(***************************************************************************)
(* SpecLife: the recording flag and the recognition threads of one         *)
(* service over start, stop and start again.  A thread is "none" (not      *)
(* running), "responses" (in its loop over the responses of the stream) or *)
(* "handling" (inside _handle_recognition_result, delivering an event).    *)
(* stop sets the flag and waits for the thread started last for at most    *)
(* 2 seconds (1 second in WebRTCSpeechService), so it can return while the *)
(* thread is still in its loop.  What the delivered events write is the    *)
(* subject of SpecAgg and SpecConc.                                        *)
(***************************************************************************)
InitLife ==
    /\ FnIdle
    /\ service \in {"realtime", "webrtc"}
    /\ address_parser = "none"
    /\ StoreInitial(NoStats)
    /\ worker = "idle"
    /\ snap = <<>>
    /\ finals = 0
    /\ cleared = FALSE
    /\ after_error = FALSE
    /\ ThreadsIdle
    /\ LifeIdle
    /\ SessionInitial
    /\ lookup_log = <<>>

\* threading.Thread(target=...).start(), kept in self.recognition_thread
StartThread(running, t) ==
    /\ threads' = [running EXCEPT ![t] = "responses"]
    /\ recognition_thread' = t

\* the finally block of _run_recognition_thread, which ends thread t: while the
\* flag is set it starts a new thread
WR_finally(t) ==
    IF recording
    THEN \E n \in ThreadIds :
            /\ n = t \/ threads[n] = "none"
            /\ StartThread([threads EXCEPT ![t] = "none"], n)
    ELSE /\ threads' = [threads EXCEPT ![t] = "none"]
         /\ UNCHANGED recognition_thread

\* start_streaming_with_streamlit (refused while self.recording) and
\* run_component's call of start_streaming_recognition (while not is_streaming)
L_Start ==
    /\ ~recording
    /\ recording' = TRUE
    /\ \E t \in ThreadIds :
          /\ threads[t] = "none"
          /\ StartThread(threads, t)
    /\ UNCHANGED <<fn_vars, config_vars, store_vars, serial_vars, thread_vars,
                   session_vars, lookup_log>>

\* stop_streaming_recognition: the flag is cleared, and the join returns
\* whether or not the thread has ended
L_Stop ==
    /\ recording
    /\ recording' = FALSE
    /\ UNCHANGED <<threads, recognition_thread>>
    /\ UNCHANGED <<fn_vars, config_vars, store_vars, serial_vars, thread_vars,
                   session_vars, lookup_log>>

\* a response arrives at thread t: with the flag cleared the thread leaves its
\* loop and ends, otherwise it handles the result
L_Response(t) ==
    /\ threads[t] = "responses"
    /\ threads' = [threads EXCEPT ![t] = IF recording THEN "handling" ELSE "none"]
    /\ UNCHANGED <<recording, recognition_thread>>
    /\ UNCHANGED <<fn_vars, config_vars, store_vars, serial_vars, thread_vars,
                   session_vars, lookup_log>>

\* _handle_recognition_result returns in thread t.  RealtimeSpeechService goes
\* on with the next response; WebRTCSpeechService leaves the loop after a
\* final result and runs its finally block
L_Handled(t, is_final) ==
    /\ threads[t] = "handling"
    /\ IF service = "webrtc" /\ is_final
       THEN WR_finally(t)
       ELSE /\ threads' = [threads EXCEPT ![t] = "responses"]
            /\ UNCHANGED recognition_thread
    /\ UNCHANGED recording
    /\ UNCHANGED <<fn_vars, config_vars, store_vars, serial_vars, thread_vars,
                   session_vars, lookup_log>>

\* the stream of thread t ends.  run_recognition opens the next stream while
\* self.recording (auto_reconnect_enabled) and ends otherwise;
\* _run_recognition_thread runs its finally block
L_StreamEnd(t) ==
    /\ threads[t] = "responses"
    /\ IF service = "webrtc"
       THEN WR_finally(t)
       ELSE /\ threads' = [threads EXCEPT ![t] = IF recording THEN "responses"
                                                 ELSE "none"]
            /\ UNCHANGED recognition_thread
    /\ UNCHANGED recording
    /\ UNCHANGED <<fn_vars, config_vars, store_vars, serial_vars, thread_vars,
                   session_vars, lookup_log>>

\* the stream of thread t raises.  run_recognition ends (its except is outside
\* the while loop) and leaves self.recording as it is, unless it calls itself
\* again after a duration-limit error; _run_recognition_thread runs its finally
\* block
L_StreamError(t, error_msg) ==
    /\ threads[t] = "responses"
    /\ IF service = "webrtc"
       THEN WR_finally(t)
       ELSE /\ threads' = [threads EXCEPT ![t] = IF RT_reconnects(error_msg, recording)
                                                 THEN "responses" ELSE "none"]
            /\ UNCHANGED recognition_thread
    /\ UNCHANGED recording
    /\ UNCHANGED <<fn_vars, config_vars, store_vars, serial_vars, thread_vars,
                   session_vars, lookup_log>>

NextLife ==
    \/ L_Start
    \/ L_Stop
    \/ \E t \in ThreadIds : L_Response(t)
    \/ \E t \in ThreadIds, is_final \in BOOLEAN : L_Handled(t, is_final)
    \/ \E t \in ThreadIds : L_StreamEnd(t)
    \/ \E t \in ThreadIds, error_msg \in StreamErrors : L_StreamError(t, error_msg)

SpecLife == InitLife /\ [][NextLife]_vars

\* thread t is scheduled and its stream keeps yielding or ends: a thread in its
\* loop gets its next response or the end of the stream, and a handler that
\* was entered returns
ThreadProgress(t) ==
    /\ WF_vars(L_Response(t) \/ L_StreamEnd(t))
    /\ WF_vars(\E is_final \in BOOLEAN : L_Handled(t, is_final))

SpecLifeFair == SpecLife /\ \A t \in ThreadIds : ThreadProgress(t)

\* the threads that are delivering an event
Delivering == {t \in ThreadIds : threads[t] = "handling"}

\* C8: at most one recognition thread delivers transcript events at any time,
\* over any sequence of start, stop (also one whose join timed out) and start
\* again, and over the automatic restarts of the worker.
C8_OneProducer == Cardinality(Delivering) <= 1

(***************************************************************************)
(* Spec: the assembly workflow of tab 1 of app.py.  Its service is a       *)
(* RealtimeSpeechService without an address parser; a step of the model is *)
(* one script run (a pressed button, which ends in st.rerun(), or the poll *)
(* of the step's right column) or one event of the recognition worker.     *)
(***************************************************************************)
\* simple_text_cleanup of step 2
simple_text_cleanup(text) ==
    LET cleaned == ReplaceEach(text,
                       << <<(<<"u3001">>), <<>>>>, <<(<<"u3002">>), <<>>>>,
                          <<(<<"de", "su">>), <<>>>>,
                          <<(<<"de", "aa", "ru">>), <<>>>>,
                          <<(<<"ni", "aa", "ri", "ma", "su">>), <<>>>>,
                          <<(<<"ma", "su">>), <<>>>>, <<(<<"da">>), <<>>>> >>)
    IN  Remove(Strip(cleaned), {" ", "fsp"})

\* what the recognizer can return in tab 1: two postal codes and a detail
SpokenTexts ==
    { <<"1", "5", "0", "-", "0", "0", "0", "1">>,
      <<"1", "6", "0", "0", "0", "0", "2">>,
      <<"1", "u4e01", "u76ee", "de", "su">> }

\* what get_address_by_postal_code can return
LookupResults ==
    { [success |-> FALSE, full_address |-> <<>>],
      [success |-> TRUE,
       full_address |-> <<"u6771", "u4eac", "u90fd", "u6e0b", "u8c37", "u533a">>] }

Init ==
    /\ FnIdle
    /\ service = "realtime"
    /\ address_parser = "none"
    /\ StoreInitial(NoStats)
    /\ worker = "idle"
    /\ snap = <<>>
    /\ finals = 0
    /\ cleared = FALSE
    /\ after_error = FALSE
    /\ ThreadsIdle
    /\ LifeIdle
    /\ SessionInitial
    /\ lookup_log = <<>>

\* what no step of the workflow touches
FlowFrame == UNCHANGED <<fn_vars, config_vars, thread_vars, life_vars, snap,
                         cleared, after_error>>

\* a step that leaves the recording running
KeepRecording == UNCHANGED <<worker, recognition_active, segment_recording>>

\* if st.session_state.segment_recording: stop_streaming_recognition();
\* segment_recording = False
StopIfRecording ==
    /\ worker' = IF segment_recording THEN "idle" ELSE worker
    /\ recognition_active' = IF segment_recording THEN FALSE ELSE recognition_active
    /\ segment_recording' = FALSE

\* the buttons of a step are shown while the postal code and the base address
\* are both set
ConfirmationAlwaysShown == TRUE

ConfirmationShown == segment_postal_code # <<>> /\ segment_base_address # <<>>

\* the poll extracts a postal code whatever the session holds
PostalNeverFrozen == FALSE

\* `not st.session_state.segment_postal_code` fails
PostalFrozen == segment_postal_code # <<>>

\* the start button of step 1 and of step 2
A_StartRecording ==
    /\ segment_current_step \in {STEP_POSTAL_CODE, STEP_DETAIL_ADDRESS}
    /\ ~segment_recording
    /\ RT_keys_to_clear
    /\ performance_stats' = RT_initialize_session_state(performance_stats)
    /\ worker' = "running"
    /\ segment_recording' = TRUE
    /\ UNCHANGED <<segment_current_step, segment_postal_code, segment_base_address,
                   segment_detail_text, segment_final_address, finals>>
    /\ UNCHANGED lookup_log
    /\ FlowFrame

\* the stop button of step 1 and of step 2
A_StopRecording ==
    /\ segment_current_step \in {STEP_POSTAL_CODE, STEP_DETAIL_ADDRESS}
    /\ segment_recording
    /\ StopIfRecording
    /\ UNCHANGED <<final_text, all_final_text, interim_text, extracted_addresses,
                   best_address, error_message, performance_stats>>
    /\ UNCHANGED <<segment_current_step, segment_postal_code, segment_base_address,
                   segment_detail_text, segment_final_address, finals>>
    /\ UNCHANGED lookup_log
    /\ FlowFrame

\* the worker delivers a final result
A_Final(transcript) ==
    /\ worker = "running"
    /\ finals < MaxFinals
    /\ RT_handle_recognition_result(transcript, TRUE, [kind |-> "none"], 0)
    /\ finals' = finals + 1
    /\ UNCHANGED <<worker, session_vars, lookup_log>>
    /\ FlowFrame

\* the worker delivers an interim result
A_Interim(transcript) ==
    /\ worker = "running"
    /\ RT_handle_recognition_result(transcript, FALSE, [kind |-> "none"], 0)
    /\ UNCHANGED <<worker, finals, session_vars, lookup_log>>
    /\ FlowFrame

\* the worker's stream raises and the worker ends
A_StreamError(error_msg) ==
    /\ worker = "running"
    /\ RT_run_recognition_except(error_msg, TRUE)
    /\ worker' = IF RT_reconnects(error_msg, TRUE) THEN "running" ELSE "ended"
    /\ UNCHANGED <<finals, session_vars, lookup_log>>
    /\ FlowFrame

\* the poll of step 1: a postal code found in the accumulated final text is
\* stored and looked up; a successful lookup stores the base address and
\* stops the recording
A_PollPostal(address_result) ==
    /\ segment_current_step = STEP_POSTAL_CODE
    /\ LET extracted_postal == PCS_extract_postal_code(all_final_text)
       IN  IF all_final_text # <<>> /\ ~PostalFrozen /\ extracted_postal # <<>>
           THEN /\ segment_postal_code' = extracted_postal
                /\ lookup_log' = Append(lookup_log,
                                        [finals |-> finals,
                                         success |-> address_result.success])
                /\ IF address_result.success
                   THEN /\ segment_base_address' = address_result.full_address
                        /\ StopIfRecording
                   ELSE UNCHANGED <<segment_base_address, segment_recording, worker,
                                    recognition_active>>
           ELSE UNCHANGED <<segment_postal_code, segment_base_address,
                            segment_recording, worker, recognition_active,
                            lookup_log>>
    /\ UNCHANGED <<final_text, all_final_text, interim_text, extracted_addresses,
                   best_address, error_message, performance_stats>>
    /\ UNCHANGED <<segment_current_step, segment_detail_text, segment_final_address,
                   finals>>
    /\ FlowFrame

\* the next-step button of step 1
A_NextStep ==
    /\ segment_current_step = STEP_POSTAL_CODE
    /\ ConfirmationShown
    /\ segment_current_step' = STEP_DETAIL_ADDRESS
    /\ StopIfRecording
    /\ UNCHANGED <<final_text, all_final_text, interim_text, extracted_addresses,
                   best_address, error_message, performance_stats>>
    /\ UNCHANGED <<segment_postal_code, segment_base_address, segment_detail_text,
                   segment_final_address, finals>>
    /\ UNCHANGED lookup_log
    /\ FlowFrame

\* the retry and reset buttons are drawn inside the block of step 1
RetryShown == segment_current_step = STEP_POSTAL_CODE

\* a retry that empties the detail text as well
A_RetryAll ==
    /\ segment_current_step = STEP_POSTAL_CODE
    /\ worker' = IF segment_recording THEN "idle" ELSE worker
    /\ segment_recording' = FALSE
    /\ RT_clear_session_state
    /\ segment_postal_code' = <<>>
    /\ segment_base_address' = <<>>
    /\ segment_detail_text' = <<>>
    /\ UNCHANGED <<segment_current_step, segment_final_address, finals>>
    /\ UNCHANGED lookup_log
    /\ FlowFrame

\* the retry button of step 1 (shown with the confirmation) and its reset
\* button (shown without it): the same statements
A_Retry ==
    /\ RetryShown
    /\ worker' = IF segment_recording THEN "idle" ELSE worker
    /\ segment_recording' = FALSE
    /\ RT_clear_session_state
    /\ segment_postal_code' = <<>>
    /\ segment_base_address' = <<>>
    /\ UNCHANGED <<segment_current_step, segment_detail_text, segment_final_address,
                   finals>>
    /\ UNCHANGED lookup_log
    /\ FlowFrame

\* the poll of step 2: the cleaned accumulated final text is the detail text
A_PollDetail ==
    /\ segment_current_step = STEP_DETAIL_ADDRESS
    /\ segment_detail_text' = IF all_final_text # <<>>
                              THEN simple_text_cleanup(all_final_text)
                              ELSE segment_detail_text
    /\ UNCHANGED <<store_vars, worker, finals>>
    /\ UNCHANGED <<segment_current_step, segment_recording, segment_postal_code,
                   segment_base_address, segment_final_address>>
    /\ UNCHANGED lookup_log
    /\ FlowFrame

\* a complete button that is shown whatever the detail text is
A_CompleteAlways ==
    /\ segment_current_step = STEP_DETAIL_ADDRESS
    /\ segment_final_address' = segment_postal_code \o <<" ">> \o segment_base_address
                                    \o segment_detail_text
    /\ segment_current_step' = STEP_COMPLETE
    /\ worker' = "idle"
    /\ recognition_active' = FALSE
    /\ segment_recording' = FALSE
    /\ UNCHANGED <<final_text, all_final_text, interim_text, extracted_addresses,
                   best_address, error_message, performance_stats>>
    /\ UNCHANGED <<segment_postal_code, segment_base_address, segment_detail_text,
                   finals>>
    /\ UNCHANGED lookup_log
    /\ FlowFrame

\* the complete button of step 2
A_Complete ==
    /\ segment_current_step = STEP_DETAIL_ADDRESS
    /\ segment_detail_text # <<>>
    /\ segment_final_address' = segment_postal_code \o <<" ">> \o segment_base_address
                                    \o segment_detail_text
    /\ segment_current_step' = STEP_COMPLETE
    /\ worker' = "idle"
    /\ recognition_active' = FALSE
    /\ segment_recording' = FALSE
    /\ UNCHANGED <<final_text, all_final_text, interim_text, extracted_addresses,
                   best_address, error_message, performance_stats>>
    /\ UNCHANGED <<segment_postal_code, segment_base_address, segment_detail_text,
                   finals>>
    /\ UNCHANGED lookup_log
    /\ FlowFrame

\* the back button of step 2
A_Back ==
    /\ segment_current_step = STEP_DETAIL_ADDRESS
    /\ segment_current_step' = STEP_POSTAL_CODE
    /\ StopIfRecording
    /\ UNCHANGED <<final_text, all_final_text, interim_text, extracted_addresses,
                   best_address, error_message, performance_stats>>
    /\ UNCHANGED <<segment_postal_code, segment_base_address, segment_detail_text,
                   segment_final_address, finals>>
    /\ UNCHANGED lookup_log
    /\ FlowFrame

\* the copy button of step 3: it shows the final address again
A_Copy ==
    /\ segment_current_step = STEP_COMPLETE
    /\ UNCHANGED <<store_vars, worker, finals, session_vars, lookup_log>>
    /\ FlowFrame

\* a restart that empties what the retry button of step 1 empties
A_RestartPartial ==
    /\ segment_current_step = STEP_COMPLETE
    /\ segment_current_step' = STEP_POSTAL_CODE
    /\ segment_recording' = FALSE
    /\ segment_postal_code' = <<>>
    /\ segment_base_address' = <<>>
    /\ RT_clear_session_state
    /\ UNCHANGED <<segment_detail_text, segment_final_address, worker, finals>>
    /\ UNCHANGED lookup_log
    /\ FlowFrame

\* the restart button of step 3
A_Restart ==
    /\ segment_current_step = STEP_COMPLETE
    /\ segment_current_step' = STEP_POSTAL_CODE
    /\ segment_recording' = FALSE
    /\ segment_postal_code' = <<>>
    /\ segment_base_address' = <<>>
    /\ segment_detail_text' = <<>>
    /\ segment_final_address' = <<>>
    /\ RT_clear_session_state
    /\ UNCHANGED <<worker, finals>>
    /\ UNCHANGED lookup_log
    /\ FlowFrame

Next ==
    \/ A_StartRecording
    \/ A_StopRecording
    \/ \E transcript \in SpokenTexts : A_Final(transcript)
    \/ \E transcript \in SpokenTexts : A_Interim(transcript)
    \/ \E error_msg \in StreamErrors : A_StreamError(error_msg)
    \/ \E address_result \in LookupResults : A_PollPostal(address_result)
    \/ A_NextStep
    \/ A_Retry
    \/ A_PollDetail
    \/ A_Complete
    \/ A_Back
    \/ A_Copy
    \/ A_Restart

Spec == Init /\ [][Next]_vars

\* a step in which the lookup of step 1 succeeded: the base address is stored
LookupSucceeded ==
    /\ segment_current_step = STEP_POSTAL_CODE
    /\ segment_base_address = <<>>
    /\ segment_base_address' # <<>>

\* a step in which the lookup of step 1 failed: the postal code is stored
\* without a base address
LookupFailed ==
    /\ segment_current_step = STEP_POSTAL_CODE
    /\ segment_postal_code = <<>>
    /\ segment_postal_code' # <<>>
    /\ segment_base_address' = <<>>

C4_PostalKeptUntilFullReset ==
    [][segment_postal_code # <<>> =>
          \/ segment_postal_code' = segment_postal_code
          \/ SessionInitial']_vars

\* C4, amended: a postal code that is set changes only by being emptied, by
\* retry/reset in step PostalCode or by restart in step Complete.  Retry/reset
\* empties the postal code and the base address and leaves the step, the
\* detail text and the final address as they are; restart returns all five
\* fields to their initial values.
C4_PostalKeptUntilRetry ==
    /\ [][segment_postal_code # <<>> =>
              \/ segment_postal_code' = segment_postal_code
              \/ /\ segment_postal_code' = <<>>
                 /\ segment_base_address' = <<>>
                 /\ \/ /\ segment_current_step = STEP_POSTAL_CODE
                       /\ UNCHANGED <<segment_current_step, segment_detail_text,
                                      segment_final_address>>
                    \/ /\ segment_current_step = STEP_COMPLETE
                       /\ SessionInitial']_vars
    /\ [][A_Retry \/ A_Restart => segment_postal_code' = <<>>]_vars

\* back in step PostalCode with the postal code still set, after the detail
\* step recorded a detail text
C4_Witness ==
    /\ segment_current_step = STEP_POSTAL_CODE
    /\ segment_postal_code # <<>>
    /\ segment_detail_text # <<>>

(***************************************************************************)
(* SpecScore: the two confidence scorers applied to bounded inputs: the    *)
(* structured scorer to every present/absent combination of its eight      *)
(* fields, the fallback scorer to texts of at most MaxParts pieces.        *)
(* Scores are in hundredths.                                               *)
(***************************************************************************)
MaxParts == 3

\* a digit, the three characters of [<chou><me><machi>], a municipal suffix
\* that is none of them, and ten characters of no pattern
ScoreParts ==
    { <<"1">>, <<"u4e01">>, <<"u76ee">>, <<"u753a">>, <<"u5e02">>,
      <<"etc", "etc", "etc", "etc", "etc", "etc", "etc", "etc", "etc", "etc">> }

RECURSIVE ScoreTexts(_)
ScoreTexts(n) ==
    IF n = 0 THEN {<<>>}
    ELSE ScoreTexts(n - 1) \cup {t \o c : t \in ScoreTexts(n - 1), c \in ScoreParts}

\* a field that is absent or present
Presence == {<<>>, <<"etc">>}

\* address_data and building_info with every combination of fields
ScoreInputs ==
    { [data |-> [prefecture |-> p, city |-> c, town |-> t, rest |-> r],
       building_info |-> [building_name |-> b, room_number |-> rn, floor |-> f,
                          block_number |-> bn]] :
        p \in Presence, c \in Presence, t \in Presence, r \in Presence,
        b \in Presence, rn \in Presence, f \in Presence, bn \in Presence }

InitScore ==
    /\ ServiceIdle
    /\ \/ fnText \in ScoreTexts(MaxParts) /\ fnCands = <<>>
       \/ fnText = <<>> /\ fnCands \in {<<i>> : i \in ScoreInputs}
    /\ fnOut = 0
    /\ fnPc = "input"

\* _calculate_fallback_confidence(address_text)
ScoreFallback ==
    /\ fnPc = "input"
    /\ fnCands = <<>>
    /\ fnOut' = calculate_fallback_confidence(fnText)
    /\ fnPc' = "done"
    /\ UNCHANGED <<fnText, fnCands, config_vars, life_vars, session_vars, lookup_log,
                   store_vars, serial_vars, thread_vars>>

\* _calculate_toriyama_confidence(address_data, building_info)
ScoreStructured ==
    /\ fnPc = "input"
    /\ fnCands # <<>>
    /\ fnOut' = calculate_toriyama_confidence(fnCands[1].data,
                                              fnCands[1].building_info)
    /\ fnPc' = "done"
    /\ UNCHANGED <<fnText, fnCands, config_vars, life_vars, session_vars, lookup_log,
                   store_vars, serial_vars, thread_vars>>

NextScore == ScoreFallback \/ ScoreStructured

SpecScore == InitScore /\ [][NextScore]_vars

\* the weight of an item of evidence that is present
Weight(present, w) == IF present THEN w ELSE 0

\* the text contains a digit followed by <chou><me> or by <machi>
HasDigitChome(text) ==
    \E k \in 1..(Len(text) - 1) :
        /\ IsDigit(text[k])
        /\ \/ text[k + 1] = "u753a"
           \/ k + 2 <= Len(text) /\ text[k + 1] = "u4e01" /\ text[k + 2] = "u76ee"

\* the sum of the listed weights, capped at 1.0, of the fallback path ...
FallbackWeightSum(text) ==
    LET total == Weight(Len(text) >= 10, 20)
               + Weight(\E k \in 1..Len(text) : IsDigit(text[k]), 20)
               + Weight(HasDigitChome(text), 30)
               + Weight(\E k \in 1..Len(text) : IsMunicipal(text[k]), 30)
    IN  IF total < 100 THEN total ELSE 100

\* ... and of the structured path
StructuredWeightSum(i) ==
    LET total == Weight(i.data.prefecture # <<>>, 25) + Weight(i.data.city # <<>>, 25)
               + Weight(i.data.town # <<>>, 20) + Weight(i.data.rest # <<>>, 15)
               + Weight(i.building_info.building_name # <<>>, 5)
               + Weight(i.building_info.room_number # <<>>, 5)
               + Weight(i.building_info.floor # <<>>, 3)
               + Weight(i.building_info.block_number # <<>>, 2)
    IN  IF total < 100 THEN total ELSE 100

\* C11: for every combination of the eight structured fields and for every
\* combination of the four fallback evidence flags (length >= 10, a digit, a
\* digit followed by chome or machi, a municipal suffix) the score lies in
\* [0, 1] and is the sum of the listed weights of the present items, capped
\* at 1.0.
C11_ScoreIsCappedWeightSum ==
    fnPc = "done" =>
        /\ fnOut \in 0..100
        /\ fnOut = IF fnCands = <<>> THEN FallbackWeightSum(fnText)
                   ELSE StructuredWeightSum(fnCands[1])

\* the part of C11 that the scorers keep: the range, and the structured sum
ScoreInRange ==
    fnPc = "done" =>
        /\ fnOut \in 0..100
        /\ fnCands # <<>> => fnOut = StructuredWeightSum(fnCands[1])

(***************************************************************************)
(* SpecExtract: extract_addresses_from_realtime_text applied to a text and *)
(* to what the address library returns for it, with and without the        *)
(* library.                                                                *)
(***************************************************************************)
ExtractTexts ==
    { <<"1", "5", "0", "-", "0", "0", "0", "1">>,
      <<"u6771", "u4eac", "u90fd", "u6e0b", "u8c37", "u533a", "1", "u4e01", "u76ee">>,
      <<"yubin", "1", "5", "0", "0", "0", "0", "1", " ", "u6771", "u4eac", "u90fd",
        "u6e0b", "u8c37", "u533a">>,
      <<"etc", "etc">> }

\* result.address of the library: every field absent or present; a rest with
\* a block number and one with a room number
LibAddresses ==
    { [prefecture |-> p, city |-> c, town |-> t, rest |-> r] :
        p \in {<<>>, <<"u6771", "u4eac", "u90fd">>},
        c \in {<<>>, <<"u6e0b", "u8c37", "u533a">>},
        t \in {<<>>, <<"u795e", "u5357">>},
        r \in {<<>>, <<"1", "-", "2", "-", "3">>, <<"1", "0", "1", "u53f7", "u5ba4">>} }

ExtractInputs ==
    { [parser_available |-> a, lib |-> l] :
        a \in BOOLEAN,
        l \in {[kind |-> "raise"], [kind |-> "none"]}
              \cup {[kind |-> "address", data |-> d] : d \in LibAddresses} }

InitExtract ==
    /\ ServiceIdle
    /\ fnText \in ExtractTexts
    /\ fnCands \in {<<i>> : i \in ExtractInputs}
    /\ fnOut = <<>>
    /\ fnPc = "input"

\* extract_addresses_from_realtime_text(text)
ExtractAddresses ==
    /\ fnPc = "input"
    /\ fnOut' = extract_addresses_from_realtime_text(
                    fnText, fnCands[1].parser_available, fnCands[1].lib, 0)
    /\ fnPc' = "done"
    /\ UNCHANGED <<fnText, fnCands, config_vars, life_vars, session_vars, lookup_log,
                   store_vars, serial_vars, thread_vars>>

NextExtract == ExtractAddresses

SpecExtract == InitExtract /\ [][NextExtract]_vars

\* C12: every candidate of any extraction path (library-parsed, fallback-parsed,
\* postal-code-detected) that is marked complete has a prefecture, a city, and
\* a town or a rest.
C12_CompleteHasComponents ==
    fnPc = "done" =>
        \A k \in 1..Len(fnOut) :
            fnOut[k].is_complete =>
                /\ fnOut[k].prefecture # <<>>
                /\ fnOut[k].city # <<>>
                /\ (fnOut[k].town # <<>> \/ fnOut[k].rest # <<>>)

\* a complete candidate with a room number was produced next to a
\* postal-code-detected one
C12_Witness ==
    /\ fnPc = "done"
    /\ \E k \in 1..Len(fnOut) : fnOut[k].is_complete /\ fnOut[k].room_number # <<>>
    /\ \E k \in 1..Len(fnOut) : fnOut[k].type = "postal_code_detected"

\* C13: once the step is Complete, nothing but the full reset changes step,
\* postalCode, baseAddress, detailText or finalAddress, and the full reset sets
\* the step to PostalCode and empties the four fields.
C13_CompleteFrozenUntilRestart ==
    [][segment_current_step = STEP_COMPLETE =>
          \/ UNCHANGED <<segment_current_step, segment_postal_code,
                         segment_base_address, segment_detail_text,
                         segment_final_address>>
          \/ /\ A_Restart
             /\ segment_current_step' = STEP_POSTAL_CODE
             /\ segment_postal_code' = <<>>
             /\ segment_base_address' = <<>>
             /\ segment_detail_text' = <<>>
             /\ segment_final_address' = <<>>]_vars

\* the session is in step Complete with its assembled final address
C13_Witness ==
    /\ segment_current_step = STEP_COMPLETE
    /\ segment_final_address =
           segment_postal_code \o <<" ">> \o segment_base_address \o segment_detail_text
    /\ segment_detail_text # <<>>
    /\ worker = "idle"

\* C14: after a failed lookup in step PostalCode the lookup is not called again
\* on any later poll while the accumulated final text is the same; the next
\* extraction and lookup comes only after a new final result has arrived.
C14_NoRepeatedLookup ==
    \A i \in 1..(Len(lookup_log) - 1) :
        ~lookup_log[i].success => lookup_log[i + 1].finals > lookup_log[i].finals

\* a lookup failed, and a later lookup was made after a new final result
C14_Witness ==
    /\ Len(lookup_log) = 2
    /\ ~lookup_log[1].success
    /\ lookup_log[2].finals > lookup_log[1].finals

\* C15: an interim transcript event stores its text as the interim text and
\* leaves the accumulated final text, the candidates, the best candidate and
\* the performance counters as they were (no extraction runs); a final
\* transcript event (the only step that counts up finals) always leaves the
\* interim text empty.
C15_InterimFrame ==
    /\ [][\A transcript \in Transcripts :
            OnInterim(transcript) =>
                /\ interim_text' = transcript
                /\ UNCHANGED <<all_final_text, extracted_addresses, best_address,
                               performance_stats>>]_vars
    /\ [][finals' = finals + 1 => interim_text' = <<>>]_vars

\* an interim event has been handled after a final one that produced candidates
C15_Witness ==
    /\ worker = "running"
    /\ interim_text \in Transcripts
    /\ finals >= 1
    /\ extracted_addresses # <<>>
    /\ best_address # <<>>

\* C16: once stop has cleared the flag, every recognition thread that is still
\* running observes it and ends (its stream keeps yielding or ends), without
\* going on with another stream.
C16_StopEndsWorker ==
    \A t \in ThreadIds : (~recording /\ threads[t] # "none") ~> (threads[t] = "none")

\* C17: the handling of every exception raised by the recognition stream while
\* the recording is active leaves a non-empty error in the store, which the
\* snapshot shows; the exceptions with "Exceeded maximum allowed stream
\* duration" or "400" in their message are among them.
C17_StreamErrorStored ==
    [][(\E error_msg \in StreamErrors : StreamError(error_msg)) =>
            /\ error_message' # ""
            /\ (IF service = "realtime" THEN RT_get_session_state_data
                ELSE WR_get_session_state_data)'.error_message # ""]_vars

\* a final event whose extraction raises is handled in this step
RaisingPass(transcript) ==
    /\ address_parser # "none"
    /\ OnFinal(transcript, [kind |-> "error"], 100)

\* what every final event does to the texts and the worker
FinalStored(transcript) ==
    /\ all_final_text' \in {all_final_text \o transcript,
                            all_final_text \o transcript \o <<" ">>}
    /\ interim_text' = <<>>
    /\ worker' = "running"

C19_HiraganaSpokenPostal ==
    (fnPc = "done"
     /\ fnText = <<"ii", "chi", "go", "cho", "no", "ze", "ro", "ze", "ro", "ze", "ro",
                  "ii", "chi">>) =>
        /\ fnOut.pcs = <<"1", "5", "0", "-", "0", "0", "0", "1">>
        /\ fnOut.ae = <<"1", "5", "0", "-", "0", "0", "0", "1">>

(***************************************************************************)
(* SpecDetail: the two cleanups of a spoken detail address,                *)
(* AddressExtractor.extract_detail_address and the simple_text_cleanup of  *)
(* step 2 of the workflow, applied to the readings of "1 2 3" with a       *)
(* building word, an ending and a trailing character.                      *)
(***************************************************************************)
\* the prefix of s before the first occurrence of marker (s if there is none):
\* s.split(marker)[0]
RECURSIVE SplitHead(_, _)
SplitHead(s, marker) ==
    IF Len(s) < Len(marker) THEN s
    ELSE IF SubSeq(s, 1, Len(marker)) = marker THEN <<>>
    ELSE <<Head(s)>> \o SplitHead(Tail(s), marker)

\* marker in s
Contains(s, marker) == SplitHead(s, marker) # s \/ (s = marker /\ marker # <<>>)

end_markers ==
    << <<"u4f4f", "u6240", "de", "su">>,
       <<"ko", "re", "de", "u7d42", "wa", "ri", "de", "su">>,
       <<"ko", "re", "de", "u7d42", "wa", "ri">>,
       <<"da", "su">>, <<"de", "aa", "ru">> >>

\* the loop over end_markers: the text is cut at the first marker of the list
\* that it contains
RECURSIVE cut_at_end_marker(_, _)
cut_at_end_marker(text, k) ==
    IF k > Len(end_markers) THEN text
    ELSE IF Contains(text, end_markers[k]) THEN SplitHead(text, end_markers[k])
    ELSE cut_at_end_marker(text, k + 1)

\* AddressExtractor.extract_detail_address
extract_detail_address(text, base_address) ==
    IF text = <<>> THEN NoneStr
    ELSE LET hyphened == ReplaceAll(text, <<"no">>, <<"-">>)
             denoised == Remove(hyphened, {"u3001", "u3002", "fexcl", "fques", "!", "?",
                                           "fsp"})
             cut == cut_at_end_marker(denoised, 1)
             ended == IF Len(cut) >= 2 /\ SubSeq(cut, Len(cut) - 1, Len(cut)) = <<"de", "su">>
                      THEN SubSeq(cut, 1, Len(cut) - 2)
                      ELSE cut
             cleaned_text == Strip(ended)
         IN  IF cleaned_text = <<>> THEN NoneStr ELSE base_address \o cleaned_text

Mansion == <<"MA", "NN", "SHI", "XYO", "NN">>

DetailTexts ==
    { <<"1">> \o sep1 \o <<"2">> \o sep2 \o <<"3">> \o building \o ending \o trail :
        sep1 \in {<<"no">>, <<"-">>, <<"u3001">>},
        sep2 \in {<<"no">>, <<"-">>, <<"u3001">>},
        building \in {<<>>, Mansion},
        ending \in {<<>>, <<"de", "su">>, <<"de", "su", "de", "su">>,
                    <<"de", "aa", "ru">>, <<"da", "su">>},
        trail \in {<<>>, <<" ">>, <<"u3002">>} }

InitDetail ==
    /\ ServiceIdle
    /\ fnText \in DetailTexts
    /\ fnCands = <<>>
    /\ fnOut = [ae |-> NoneStr, app |-> NoneStr]
    /\ fnPc = "input"

CleanDetail ==
    /\ fnPc = "input"
    /\ fnOut' = [ae |-> extract_detail_address(fnText, <<>>),
                 app |-> simple_text_cleanup(fnText)]
    /\ fnPc' = "done"
    /\ UNCHANGED <<fnText, fnCands, config_vars, life_vars, session_vars, lookup_log,
                   store_vars, serial_vars, thread_vars>>

NextDetail == CleanDetail

SpecDetail == InitDetail /\ [][NextDetail]_vars

\* C20: the detail text "1 no 2 no 3 mansion desu" is cleaned to "1-2-3
\* mansion", each particle no turned into a hyphen and the final desu removed,
\* by extract_detail_address and by the cleanup of the workflow's detail step.
C20_DetailCleanup ==
    (fnPc = "done"
     /\ fnText = <<"1", "no", "2", "no", "3">> \o Mansion \o <<"de", "su">>) =>
        /\ fnOut.ae = <<"1", "-", "2", "-", "3">> \o Mansion
        /\ fnOut.app = <<"1", "-", "2", "-", "3">> \o Mansion

\* a postal code in the form DDD-DDDD of ASCII digits and an ASCII hyphen
IsAsciiPostal(code) ==
    /\ Len(code) = 8
    /\ code[4] = "-"
    /\ \A k \in {1, 2, 3, 5, 6, 7, 8} : code[k] \in AsciiDigits

\* C21: every result of extract_postal_code that is not None, from a literal
\* pattern or from the fallback tier, is three ASCII digits, an ASCII hyphen
\* and four ASCII digits.
C21_ResultIsAsciiPostal ==
    fnPc = "done" =>
        /\ fnOut.pcs = NoneStr \/ IsAsciiPostal(fnOut.pcs)
        /\ fnOut.ae = NoneStr \/ IsAsciiPostal(fnOut.ae)

\* what the accumulated final text is after the final transcript has been
\* joined to it: RealtimeSpeechService puts one space after each transcript
Joined(text, transcript) ==
    text \o transcript \o (IF service = "realtime" THEN <<" ">> ELSE <<>>)

\* a step that is no final event and does not end in the state a reset leaves
NoFinalNoReset == finals' = finals /\ ~cleared'

\* C22 as stated: the accumulated final text is the concatenation of the
\* transcripts of the final events, in the order of their arrival: it is empty
\* after a reset, a final event puts its transcript at the end, and no other
\* step changes it.
C22_FinalTextIsConcatenation ==
    /\ [](cleared => all_final_text = <<>>)
    /\ [][\A transcript \in Transcripts, lib \in ParserResults :
            OnFinal(transcript, lib, 100) =>
                all_final_text' = all_final_text \o transcript]_vars
    /\ [][NoFinalNoReset => all_final_text' = all_final_text]_vars

\* C22: the accumulated final text holds the transcripts of exactly the final
\* events, in the order of their arrival, none left out and none twice: it is
\* empty after a reset, a final event puts its transcript at the end
\* (RealtimeSpeechService: followed by one space), and no other step changes
\* it; interim events leave it as it is.
C22_FinalTextIsFinalsInOrder ==
    /\ [](cleared => all_final_text = <<>>)
    /\ [][\A transcript \in Transcripts, lib \in ParserResults :
            OnFinal(transcript, lib, 100) =>
                all_final_text' = Joined(all_final_text, transcript)]_vars
    /\ [][NoFinalNoReset => all_final_text' = all_final_text]_vars

\* two different final transcripts and then an interim one have been handled
C22_Witness ==
    /\ worker = "running"
    /\ finals = 2
    /\ interim_text # <<>>
    /\ \E t1 \in Transcripts :
          \E t2 \in Transcripts \ {t1} :
              all_final_text = Joined(Joined(<<>>, t1), t2)

\* the sum of the durations recorded in stats: every recorded duration is the
\* one of Durations below 500 ms, counted by fast_extractions, or the other one
RecordedSum(stats) ==
    LET fast_ms == CHOOSE d \in Durations : d < 500
        slow_ms == CHOOSE d \in Durations : d >= 500
    IN  fast_ms * stats.fast_extractions
        + slow_ms * (stats.total_extractions - stats.fast_extractions)

C24_NormalizeIdempotent ==
    fnPc = "done" =>
        /\ (\A k \in 1..Len(fnText) : fnText[k] \in AsciiDigits \cup {" "}) =>
               normalize_digits(fnText) = fnText
        /\ normalize_digits(normalize_digits(fnText)) = normalize_digits(fnText)

\* a text of ASCII digits with a space between them has been normalised
C24_Witness ==
    /\ fnPc = "done"
    /\ fnText = <<"1", "5", "0", " ", "0", "0", "1">>
    /\ fnOut.pcs = NoneStr

\* the step in which the workflow becomes complete
Completes == segment_current_step # STEP_COMPLETE /\ segment_current_step' = STEP_COMPLETE

\* what the completion does besides the final address: it is taken in step
\* Detail with a detail text, and it stops the recording
CompletionFrame ==
    /\ segment_current_step = STEP_DETAIL_ADDRESS
    /\ segment_detail_text # <<>>
    /\ ~segment_recording'
    /\ worker' = "idle"
    /\ ~recognition_active'
    /\ UNCHANGED <<segment_postal_code, segment_base_address, segment_detail_text>>

\* C25 as stated: the completion is taken only in step Detail with a non-empty
\* detail text, sets the final address to the postal code, the base address
\* and the detail text put together in this order, sets the step to Complete
\* and stops the recording.
C25_FinalIsConcatenation ==
    [][Completes =>
          /\ CompletionFrame
          /\ segment_final_address' =
                 segment_postal_code \o segment_base_address \o segment_detail_text]_vars

\* C25: the completion is taken only in step Detail with a non-empty detail
\* text, sets the final address to the postal code, one space, the base
\* address and the detail text in this order, sets the step to Complete and
\* stops the recording.
C25_FinalIsSpacedConcatenation ==
    [][Completes =>
          /\ CompletionFrame
          /\ segment_final_address' =
                 segment_postal_code \o <<" ">> \o segment_base_address
                     \o segment_detail_text]_vars

\* the workflow was completed while the detail recording was still running
C25_Witness ==
    /\ segment_current_step = STEP_COMPLETE
    /\ ~segment_recording
    /\ worker = "idle"
    /\ all_final_text # <<>>
    /\ segment_detail_text = simple_text_cleanup(all_final_text)
    /\ segment_final_address # <<>>
    /\ segment_postal_code # <<>>

\* C26: a successful lookup in step PostalCode stores the returned full
\* address as the base address and stops the recognition if it was running:
\* right after the poll that made the lookup the recording flags are off (the
\* session's segment_recording and the service's, whose worker is stopped).
C26_SuccessStopsRecording ==
    [][\A address_result \in LookupResults :
          (address_result.success /\ A_PollPostal(address_result)
           /\ lookup_log' # lookup_log) =>
              /\ segment_base_address' = address_result.full_address
              /\ ~segment_recording'
              /\ worker' = "idle"
              /\ ~recognition_active']_vars

\* the first lookup succeeded and the recording is off
C26_Witness ==
    /\ segment_current_step = STEP_POSTAL_CODE
    /\ Len(lookup_log) = 1
    /\ lookup_log[1].success
    /\ lookup_log[1].finals = finals
    /\ segment_base_address \in {r.full_address : r \in LookupResults} \ {<<>>}
    /\ ~segment_recording
    /\ worker = "idle"
    /\ ~recognition_active

\* ---------------------------------------------------------------------------
\* C27: the retry action and what it leaves alone

\* a step that stays in its step and empties the detail text and the
\* transcript buffers of the service
RetryDetail ==
    /\ segment_current_step' = segment_current_step
    /\ segment_detail_text' = <<>>
    /\ final_text' = <<>>
    /\ all_final_text' = <<>>
    /\ interim_text' = <<>>

\* a step that stays in its step and empties the postal code, the base address
\* and the transcript buffers of the service
RetryPostal ==
    /\ segment_current_step' = segment_current_step
    /\ segment_postal_code' = <<>>
    /\ segment_base_address' = <<>>
    /\ final_text' = <<>>
    /\ all_final_text' = <<>>
    /\ interim_text' = <<>>

TypeRank(c) ==
    IF c.type = "toriyama_parsed" THEN 3
    ELSE IF c.type = "fallback_parsed" THEN 2
    ELSE IF c.type = "postal_code_detected" THEN 1 ELSE 0

\* confidence plus 0.1 for a complete candidate, in hundredths
Score(c) == c.confidence + (IF c.is_complete THEN 10 ELSE 0)

\* candidate c comes strictly before candidate d in the lexicographic order
StrictlyGreater(c, d) ==
    \/ TypeRank(c) > TypeRank(d)
    \/ TypeRank(c) = TypeRank(d) /\ Score(c) > Score(d)
    \/ TypeRank(c) = TypeRank(d) /\ Score(c) = Score(d)
           /\ Len(c.address) > Len(d.address)

RunDigits == <<"1", "2", "3", "4", "5", "6", "7", "8", "9", "0">>

RunPrefixes == {<<>>, <<"yubin">>, <<"yubin", " ">>, <<"etc">>, <<"etc", "yubin">>}

RunSuffixes == {<<>>, <<"etc">>, <<"de", "su">>, <<" ", "etc">>}

RunTexts ==
    { prefix \o SubSeq(RunDigits, 1, n) \o suffix :
        prefix \in RunPrefixes, n \in 6..10, suffix \in RunSuffixes }

InitRun ==
    /\ ServiceIdle
    /\ fnText \in RunTexts
    /\ fnCands = <<>>
    /\ fnOut = [ae |-> NoneStr, pcs |-> NoneStr]
    /\ fnPc = "input"

SpecRun == InitRun /\ [][NextPostal]_vars

\* the digits of the text are one contiguous run of at least n digits
OneDigitRun(text, n) ==
    \E i \in 1..Len(text) : \E j \in i..Len(text) :
        /\ j - i + 1 >= n
        /\ \A k \in 1..Len(text) : IsDigit(text[k]) <=> (i <= k /\ k <= j)

\* the first of the four literal patterns that matches somewhere (0: none)
FirstPattern(text) ==
    IF \A k \in 1..4 : PatternMatches(k, text) = {} THEN 0
    ELSE CHOOSE k \in 1..4 :
            /\ PatternMatches(k, text) # {}
            /\ \A l \in 1..(k - 1) : PatternMatches(l, text) = {}

\* C29: when a literal pattern matches, both extractors return the leftmost
\* match of the first pattern, in the order hyphenated, bare 7 digits,
\* white space, postal mark, that matches somewhere; and a text whose digits
\* are one contiguous run of 8 or more digits yields no postal code
C29_NoCodeFromLongRun ==
    fnPc = "done" =>
        /\ FirstPattern(fnText) # 0 =>
              LET code == format_postal(clean_postal(
                              PatternSearch(FirstPattern(fnText), fnText)))
              IN  fnOut.pcs = code /\ fnOut.ae = code
        /\ OneDigitRun(fnText, 8) => fnOut.pcs = NoneStr /\ fnOut.ae = NoneStr

(***************************************************************************)
(* SpecToken: the extractors applied to each numeral token of the table,   *)
(* alone and as the seventh digit after the six digits 150000.             *)
(***************************************************************************)
SixDigits == <<"1", "5", "0", "0", "0", "0">>

TokenTexts ==
    { prefix \o kanji_to_num[k][1] :
        prefix \in {<<>>, SixDigits}, k \in 1..Len(kanji_to_num) }

InitToken ==
    /\ ServiceIdle
    /\ fnText \in TokenTexts
    /\ fnCands = <<>>
    /\ fnOut = [ae |-> NoneStr, pcs |-> NoneStr]
    /\ fnPc = "input"

SpecToken == InitToken /\ [][NextPostal]_vars

\* C30: every numeral token of the table, given alone, normalises to its own
\* digit, and given after the six digits 150000 it makes both extractors
\* return 150-000 followed by that digit; so the readings shi-chi and SHI-CHI
\* give 7 and ki-xyu-uu gives 9
C30_TokenYieldsOwnDigit ==
    fnPc = "done" =>
        \A k \in 1..Len(kanji_to_num) :
            /\ fnText = kanji_to_num[k][1] =>
                  normalized_numbers(fnText) = kanji_to_num[k][2]
            /\ fnText = SixDigits \o kanji_to_num[k][1] =>
                  /\ fnOut.pcs = format_postal(SixDigits \o kanji_to_num[k][2])
                  /\ fnOut.ae = format_postal(SixDigits \o kanji_to_num[k][2])

(***************************************************************************)
(* JapaneseAddressParser: the three regular-expression extractors, their   *)
(* confidence and the removal of duplicates.  A candidate is the dict the  *)
(* extractor appends; of its keys the type, the address and the confidence *)
(* (in hundredths) are kept.                                               *)
(***************************************************************************)
\* self.city_suffixes
city_suffixes == {"u5e02", "u533a", "u753a", "u6751"}

\* the class [<chou><me><machi>]
chome_class == {"u4e01", "u76ee", "u753a"}

\* the class [<ban><gou><chi>]
banchi_class == {"u756a", "u53f7", "u5730"}

\* self.building_keywords
building_keywords ==
    { <<"MA", "NN", "SHI", "XYO", "NN">>, <<"A", "PA", "cho", "TO">>,
      <<"HA", "II", "TSU">>, <<"KO", "cho", "PO">>,
      <<"RE", "JI", "DE", "NN", "SU">>, <<"TA", "WA", "cho">>,
      <<"HI", "RU", "ZU">>, <<"PA", "cho", "KU">>, <<"GA", "cho", "DE", "NN">>,
      <<"PU", "RA", "ZA">>, <<"BI", "RU">>, <<"u9928">>, <<"u8358">>, <<"u5bee">>,
      <<"HA", "U", "SU">>, <<"HO", "cho", "MU">>, <<"ME", "ZO", "NN">>,
      <<"SHI", "XYA", "TO", "cho">>, <<"PA", "RE", "SU">>,
      <<"KI", "XYA", "XTSU", "SU", "RU">> }

\* the word w stands in s at position i
WordAt(s, i, w) ==
    i >= 1 /\ i + Len(w) - 1 <= Len(s) /\ SubSeq(s, i, i + Len(w) - 1) = w

\* w in s
HasWord(s, w) == \E i \in 1..Len(s) : WordAt(s, i, w)

\* the length of the prefecture name that stands in s at position i (0: none)
PrefectureLen(s, i) ==
    IF \E k \in 1..Len(prefectures) : WordAt(s, i, prefectures[k])
    THEN Len(prefectures[CHOOSE k \in 1..Len(prefectures) : WordAt(s, i, prefectures[k])])
    ELSE 0

\* (?:\d+[<chou><me><machi>][^.,]*?)? right after position j: where the match
\* ends
ChomeEnd(s, j) ==
    LET e == DigitRunEnd(s, j + 1)
    IN  IF e >= j + 1 /\ e + 1 <= Len(s) /\ s[e + 1] \in chome_class THEN e + 1 ELSE j

\* JapaneseAddressParser._calculate_address_confidence
JP_calculate_address_confidence(address_text) ==
    LET digit_then(class) ==
            \E k \in 1..(Len(address_text) - 1) :
                IsDigit(address_text[k]) /\ address_text[k + 1] \in class
        total ==
            Weight(\E k \in 1..Len(prefectures) : HasWord(address_text, prefectures[k]), 30)
          + Weight(\E k \in 1..Len(address_text) : address_text[k] \in city_suffixes, 20)
          + Weight(digit_then(chome_class), 20)
          + Weight(digit_then(banchi_class), 20)
          + Weight(\E k \in 1..Len(address_text) : IsDigit(address_text[k]), 10)
          + Weight(\E w \in building_keywords : HasWord(address_text, w), 10)
    IN  IF total < 100 THEN total ELSE 100

\* \d{3}[-<minus><cho>]?\d{4} at position d: where it ends (0: no match)
JP_CodeEnd(s, d) ==
    IF ~AllDigits(s, d, d + 2) THEN 0
    ELSE IF d + 3 <= Len(s) /\ s[d + 3] \in {"-", "minus", "cho"}
         THEN IF AllDigits(s, d + 4, d + 7) THEN d + 7 ELSE 0
         ELSE IF AllDigits(s, d + 3, d + 6) THEN d + 6 ELSE 0

\* the end of the run of characters of no class `stop` that starts at i
RECURSIVE RunEnd(_, _, _)
RunEnd(s, i, stop) ==
    IF i <= Len(s) /\ s[i] \notin stop THEN RunEnd(s, i + 1, stop) ELSE i - 1

\* the postal pattern at position i: <<end of the code, end of the match>>, or
\* <<0, 0>>.  [^\d]* is greedy: the prefecture is the last one that starts in
\* the run of non-digits after the code
JP_PostalMatch(s, i) ==
    LET d == IF i <= Len(s) /\ s[i] = "yubin" THEN i + 1 + SpaceRun(s, i + 1) ELSE i
        c == JP_CodeEnd(s, d)
        r == RunEnd(s, c + 1, AsciiDigits \cup FullWidthDigits)
        starts == {p \in (c + 1)..r : PrefectureLen(s, p) > 0}
    IN  IF c = 0 \/ starts = {} THEN <<0, 0>>
        ELSE LET p == CHOOSE q \in starts : \A o \in starts : o <= q
             IN  <<c, RunEnd(s, p + PrefectureLen(s, p), {"u3002", "u3001"})>>

\* the prefecture pattern at position i: the end of the match (0: no match).
\* [^.,]*? is lazy: the match runs to the first municipal suffix
JP_PrefectureMatch(s, i) ==
    LET a == i + PrefectureLen(s, i)
        ends == {j \in a..Len(s) :
                    /\ s[j] \in city_suffixes
                    /\ \A k \in a..(j - 1) : ~IsTerminator(s[k])}
    IN  IF PrefectureLen(s, i) = 0 \/ ends = {} THEN 0 ELSE ChomeEnd(s, Min(ends))

\* the municipality pattern at position i: the end of the match (0: no match)
JP_CityMatch(s, i) ==
    LET ends == {j \in i..Len(s) :
                    /\ s[j] \in city_suffixes
                    /\ \A k \in i..(j - 1) : ~IsSpace(s[k])}
    IN  IF ends = {} THEN 0 ELSE ChomeEnd(s, Min(ends))

RECURSIVE JP_extract_postal_code_addresses(_, _)
\* _extract_postal_code_addresses: re.finditer from position i on
JP_extract_postal_code_addresses(text, i) ==
    IF i > Len(text) THEN <<>>
    ELSE LET m == JP_PostalMatch(text, i)
         IN  IF m[2] = 0 THEN JP_extract_postal_code_addresses(text, i + 1)
             ELSE << [type |-> "postal_code_address",
                      address |-> Strip(SubSeq(text, m[1] + 1, m[2])),
                      confidence |-> 90] >>
                  \o JP_extract_postal_code_addresses(text, m[2] + 1)

RECURSIVE JP_extract_prefecture_addresses(_, _)
\* _extract_prefecture_addresses
JP_extract_prefecture_addresses(text, i) ==
    IF i > Len(text) THEN <<>>
    ELSE LET e == JP_PrefectureMatch(text, i)
             address_text == SubSeq(text, i, e)
             confidence == JP_calculate_address_confidence(address_text)
         IN  IF e = 0 THEN JP_extract_prefecture_addresses(text, i + 1)
             ELSE (IF confidence >= 50
                   THEN << [type |-> "prefecture_address", address |-> address_text,
                            confidence |-> confidence] >>
                   ELSE <<>>)
                  \o JP_extract_prefecture_addresses(text, e + 1)

RECURSIVE JP_extract_city_addresses(_, _)
\* _extract_city_addresses
JP_extract_city_addresses(text, i) ==
    IF i > Len(text) THEN <<>>
    ELSE LET e == JP_CityMatch(text, i)
             address_text == SubSeq(text, i, e)
             confidence == JP_calculate_address_confidence(address_text)
         IN  IF e = 0 THEN JP_extract_city_addresses(text, i + 1)
             ELSE (IF confidence >= 30
                   THEN << [type |-> "city_address", address |-> address_text,
                            confidence |-> confidence] >>
                   ELSE <<>>)
                  \o JP_extract_city_addresses(text, e + 1)

\* a removal of duplicates that keeps every candidate
JP_keep_duplicates(addresses) == addresses

RECURSIVE JP_remove_duplicates(_)
\* _remove_duplicates: a candidate is kept when no earlier one has its
\* stripped address
JP_remove_duplicates(addresses) ==
    IF addresses = <<>> THEN <<>>
    ELSE LET n == Len(addresses)
             addr == addresses[n]
             earlier == SubSeq(addresses, 1, n - 1)
         IN  IF \E k \in 1..(n - 1) : Strip(addresses[k].address) = Strip(addr.address)
             THEN JP_remove_duplicates(earlier)
             ELSE Append(JP_remove_duplicates(earlier), addr)

\* the three lists in the order they are appended
JP_all_addresses(text) ==
    JP_extract_postal_code_addresses(text, 1)
        \o JP_extract_prefecture_addresses(text, 1)
        \o JP_extract_city_addresses(text, 1)

\* JapaneseAddressParser.extract_addresses_from_text
JP_extract_addresses_from_text(text) == JP_remove_duplicates(JP_all_addresses(text))

(***************************************************************************)
(* SpecJP: the parser applied to texts of at most MaxChunks pieces: a      *)
(* postal code, a prefecture, two municipalities, a block, white space and *)
(* a full stop.                                                            *)
(***************************************************************************)
AddressChunks ==
    { <<"1", "5", "0", "-", "0", "0", "0", "1">>, <<"u6771", "u4eac", "u90fd">>,
      <<"u6e0b", "u8c37", "u533a">>, <<"u5927", "u962a", "u5e02">>,
      <<"1", "u4e01", "u76ee">>, <<" ">>, <<"u3002">> }

RECURSIVE AddressTexts(_)
AddressTexts(n) ==
    IF n = 0 THEN {<<>>}
    ELSE AddressTexts(n - 1) \cup {t \o c : t \in AddressTexts(n - 1), c \in AddressChunks}

InitJP ==
    /\ ServiceIdle
    /\ fnText \in AddressTexts(MaxChunks)
    /\ fnCands = <<>>
    /\ fnOut = <<>>
    /\ fnPc = "input"

\* extract_addresses_from_text(text); the concatenation before the removal
\* of duplicates is kept next to the result
ExtractJP ==
    /\ fnPc = "input"
    /\ fnCands' = JP_all_addresses(fnText)
    /\ fnOut' = JP_extract_addresses_from_text(fnText)
    /\ fnPc' = "done"
    /\ UNCHANGED <<fnText, config_vars, life_vars, session_vars, lookup_log,
                   store_vars, serial_vars, thread_vars>>

NextJP == ExtractJP

SpecJP == InitJP /\ [][NextJP]_vars

\* ---------------------------------------------------------------------------
\* C31: the output has no duplicates, first occurrence wins, order is kept

\* the place of a candidate type in the concatenation
AnchorRank(c) ==
    IF c.type = "postal_code_address" THEN 1
    ELSE IF c.type = "prefecture_address" THEN 2 ELSE 3

\* the positions of the concatenation whose trimmed address occurs at no
\* earlier position
FirstOccurrences(addresses) ==
    {i \in 1..Len(addresses) :
        \A j \in 1..(i - 1) : Strip(addresses[j].address) # Strip(addresses[i].address)}

\* C31: the list extract_addresses_from_text returns holds no two candidates
\* with the same trimmed address; it consists of the first occurrence of each
\* trimmed address in the concatenation postal-code-anchored, then
\* prefecture-anchored, then municipality-anchored candidates, in the order
\* of that concatenation
C31_FirstOccurrenceKept ==
    fnPc = "done" =>
        LET firsts == FirstOccurrences(fnCands)
        IN  /\ \A i \in 1..Len(fnCands) : \A j \in (i + 1)..Len(fnCands) :
                  AnchorRank(fnCands[i]) <= AnchorRank(fnCands[j])
            /\ \A k \in 1..Len(fnOut) : \A l \in (k + 1)..Len(fnOut) :
                  Strip(fnOut[k].address) # Strip(fnOut[l].address)
            /\ Len(fnOut) = Cardinality(firsts)
            /\ \A i \in firsts :
                  fnOut[Cardinality({j \in firsts : j <= i})] = fnCands[i]

\* a postal-code-anchored candidate was kept and the prefecture-anchored
\* candidate with its address was dropped
C31_Witness ==
    /\ fnPc = "done"
    /\ Len(fnOut) < Len(fnCands)
    /\ \E i \in 1..Len(fnCands) : \E j \in 1..Len(fnCands) : \E k \in 1..Len(fnOut) :
          /\ fnCands[i].type = "postal_code_address"
          /\ fnCands[j].type = "prefecture_address"
          /\ fnCands[j].address = fnCands[i].address
          /\ fnOut[k] = fnCands[i]
          /\ \A l \in 1..Len(fnOut) : fnOut[l] # fnCands[j]

(***************************************************************************)
(* SpecBuilding: _extract_building_details applied to rest segments made   *)
(* of an optional block number, building name, room number and floor.      *)
(***************************************************************************)
RestBlocks ==
    { <<>>, <<"2", "u756a", "3", "u53f7">>, <<"1", "-", "2", "-", "3">>,
      <<"1", "-", "2">>, <<"1", "0", "u756a", "u5730", "5", "u53f7">> }

RestBuildings == { <<>>, <<"etc">> \o Mansion }

RestRooms ==
    { <<>>, <<"1", "0", "1", "u53f7", "u5ba4">>, <<"A", "1", "0", "1">>,
      <<"3", "F", "-", "2", "0", "5">> }

RestFloors == { <<>>, <<"5", "u968e">>, <<"5", "F">> }

RestTexts ==
    { block \o building \o room \o floor_part :
        block \in RestBlocks, building \in RestBuildings, room \in RestRooms,
        floor_part \in RestFloors }

InitBuilding ==
    /\ ServiceIdle
    /\ fnText \in RestTexts
    /\ fnCands = <<>>
    /\ fnOut = NoBuilding
    /\ fnPc = "input"

\* _extract_building_details(rest_text)
ExtractBuilding ==
    /\ fnPc = "input"
    /\ fnOut' = extract_building_details(fnText)
    /\ fnPc' = "done"
    /\ UNCHANGED <<fnText, fnCands, config_vars, life_vars, session_vars, lookup_log,
                   store_vars, serial_vars, thread_vars>>

NextBuilding == ExtractBuilding

SpecBuilding == InitBuilding /\ [][NextBuilding]_vars

\* the positions a field value occupies in the text: those of its leftmost
\* occurrence (no position for an empty value)
RECURSIVE OccurrenceFrom(_, _, _)
OccurrenceFrom(s, w, i) ==
    IF w = <<>> \/ i + Len(w) - 1 > Len(s) THEN {}
    ELSE IF SubSeq(s, i, i + Len(w) - 1) = w THEN i..(i + Len(w) - 1)
    ELSE OccurrenceFrom(s, w, i + 1)

\* C32: an empty rest segment yields four empty fields; the rest segment
\* "2<ban>3<gou>" yields the block number "2<ban>3<gou>" and no room number;
\* and in general the room number takes no character the block number took
\* and the floor takes no character the block number or the room number took
C32_ConsumedNotMatchedAgain ==
    fnPc = "done" =>
        LET block == OccurrenceFrom(fnText, fnOut.block_number, 1)
            room == OccurrenceFrom(fnText, fnOut.room_number, 1)
            floor_at == OccurrenceFrom(fnText, fnOut.floor, 1)
        IN  /\ fnText = <<>> => fnOut = NoBuilding
            /\ fnText = <<"2", "u756a", "3", "u53f7">> =>
                  /\ fnOut.block_number = <<"2", "u756a", "3", "u53f7">>
                  /\ fnOut.room_number = <<>>
            /\ block \cap room = {}
            /\ (block \cup room) \cap floor_at = {}

(***************************************************************************)
(* The postal lookup collaborator: get_address_by_postal_code.  What the   *)
(* network call does is an input:                                          *)
(*   [kind |-> "RequestException"]   requests.get or raise_for_status      *)
(*                                   raises (transport error, HTTP error)  *)
(*   [kind |-> "Exception"]          any other exception in the try block  *)
(*                                   (a body that is no JSON object)       *)
(*   [kind |-> "json", ...]          the decoded body: its status and its  *)
(*                                   results list                          *)
(* The returned dict is a record; a key the dict lacks is NoneStr or "".   *)
(* raised is the exception that leaves the function ("": none), requested  *)
(* tells whether requests.get was called.                                  *)
(***************************************************************************)
ApiResult == [address1 |-> <<"u6771", "u4eac", "u90fd">>,
              address2 |-> <<"u6e0b", "u8c37", "u533a">>,
              address3 |-> <<"u795e", "u5357">>]

NetOutcomes ==
    { [kind |-> "RequestException", status |-> 0, results |-> <<>>],
      [kind |-> "Exception", status |-> 0, results |-> <<>>] }
    \cup { [kind |-> "json", status |-> st, results |-> rs] :
             st \in {200, 400}, rs \in {<<>>, <<ApiResult>>} }

\* the try block: a returned dict, or the exception it raises
lookup_try(postal_code, net) ==
    LET cleaned_postal_code == Remove(postal_code, {"-", "cho"})
    IN  IF Len(cleaned_postal_code) # 7
           \/ \E k \in 1..Len(cleaned_postal_code) : ~IsDigit(cleaned_postal_code[k])
        THEN [raised |-> "", requested |-> FALSE, success |-> FALSE,
              error |-> "invalid postal code format", full_address |-> NoneStr]
        ELSE IF net.kind # "json"
        THEN [raised |-> net.kind, requested |-> TRUE, success |-> FALSE,
              error |-> "", full_address |-> NoneStr]
        ELSE IF net.status # 200
        THEN [raised |-> "", requested |-> TRUE, success |-> FALSE,
              error |-> "postal code not found", full_address |-> NoneStr]
        ELSE IF net.results = <<>>
        THEN [raised |-> "", requested |-> TRUE, success |-> FALSE,
              error |-> "no matching address found", full_address |-> NoneStr]
        ELSE [raised |-> "", requested |-> TRUE, success |-> TRUE, error |-> "",
              full_address |-> net.results[1].address1 \o net.results[1].address2
                                   \o net.results[1].address3]

\* handlers that catch the exceptions of the requests library only
lookup_except_requests_only(attempt) ==
    IF attempt.raised = "RequestException"
    THEN [attempt EXCEPT !.raised = "", !.error = "API connection error: "]
    ELSE attempt

\* except requests.exceptions.RequestException / except Exception
lookup_except(attempt) ==
    IF attempt.raised = "RequestException"
    THEN [attempt EXCEPT !.raised = "", !.error = "API connection error: "]
    ELSE IF attempt.raised = "Exception"
    THEN [attempt EXCEPT !.raised = "", !.error = "unexpected error: "]
    ELSE attempt

\* PostalCodeService.get_address_by_postal_code
get_address_by_postal_code(postal_code, net) ==
    lookup_except(lookup_try(postal_code, net))

(***************************************************************************)
(* SpecLookup: the collaborator applied to codes of at most MaxChunks      *)
(* pieces and to every outcome of the network call.                        *)
(***************************************************************************)
CodeChunks ==
    { <<"1", "5", "0">>, <<"0", "0", "0", "1">>, <<"-">>, <<"cho">>, <<"f1">>,
      <<" ">>, <<"etc">> }

RECURSIVE CodeTexts(_)
CodeTexts(n) ==
    IF n = 0 THEN {<<>>}
    ELSE CodeTexts(n - 1) \cup {t \o c : t \in CodeTexts(n - 1), c \in CodeChunks}

InitLookup ==
    /\ ServiceIdle
    /\ fnText \in CodeTexts(MaxChunks)
    /\ fnCands \in {<<net>> : net \in NetOutcomes}
    /\ fnOut = <<>>
    /\ fnPc = "input"

\* get_address_by_postal_code(postal_code)
Lookup ==
    /\ fnPc = "input"
    /\ fnOut' = get_address_by_postal_code(fnText, fnCands[1])
    /\ fnPc' = "done"
    /\ UNCHANGED <<fnText, fnCands, config_vars, life_vars, session_vars, lookup_log,
                   store_vars, serial_vars, thread_vars>>

NextLookup == Lookup

SpecLookup == InitLookup /\ [][NextLookup]_vars

\* the code has exactly 7 digits once its hyphens are removed
SevenDigitCode(code) ==
    LET digits == Filter(code, AsciiDigits \cup FullWidthDigits)
        others == Remove(code, AsciiDigits \cup FullWidthDigits \cup {"-", "cho"})
    IN  Len(digits) = 7 /\ others = <<>>

\* C33: get_address_by_postal_code lets no exception out.  Its record has
\* success false and a non-empty error when the code is malformed, when the
\* request or the decoding raises, when the status is not 200 and when the
\* result list is empty; it has success true, with the full address of the
\* first result, only when a result exists; and for a code that is not 7
\* digits without its hyphens no request is made
C33_LookupNeverRaises ==
    fnPc = "done" =>
        LET net == fnCands[1]
            found == net.kind = "json" /\ net.status = 200 /\ net.results # <<>>
        IN  /\ fnOut.raised = ""
            /\ ~fnOut.success => fnOut.error # ""
            /\ fnOut.success <=> (SevenDigitCode(fnText) /\ found)
            /\ fnOut.success =>
                  fnOut.full_address = net.results[1].address1
                      \o net.results[1].address2 \o net.results[1].address3
            /\ ~SevenDigitCode(fnText) => ~fnOut.requested

\* a well-formed code met an exception that is none of the requests library,
\* and a record with an error came back
C33_Witness ==
    /\ fnPc = "done"
    /\ fnText = <<"1", "5", "0", "-", "0", "0", "0", "1">>
    /\ fnCands[1].kind = "Exception"
    /\ fnOut.requested
    /\ ~fnOut.success
    /\ fnOut.error # ""

\* ---------------------------------------------------------------------------
\* C34: steps Detail and Complete hold a postal code and a base address

LaterSteps == {STEP_DETAIL_ADDRESS, STEP_COMPLETE}

\* C34: in every reachable state in which the step is Detail or Complete the
\* postal code and the base address are both non-empty; step Detail is
\* entered from step PostalCode only, in a state in which both are set; and
\* no step that starts and ends in Detail or Complete changes either of them
C34_LaterStepsHavePostalAndBase ==
    /\ [](segment_current_step \in LaterSteps =>
              segment_postal_code # <<>> /\ segment_base_address # <<>>)
    /\ [][(segment_current_step # STEP_DETAIL_ADDRESS
              /\ segment_current_step' = STEP_DETAIL_ADDRESS) =>
              /\ segment_current_step = STEP_POSTAL_CODE
              /\ segment_postal_code # <<>>
              /\ segment_base_address # <<>>]_vars
    /\ [][(segment_current_step \in LaterSteps /\ segment_current_step' \in LaterSteps) =>
              /\ segment_postal_code' = segment_postal_code
              /\ segment_base_address' = segment_base_address]_vars

\* step Detail is recording and has a detail text, after the lookup filled the
\* base address
C34_Witness ==
    /\ segment_current_step = STEP_DETAIL_ADDRESS
    /\ segment_recording
    /\ segment_detail_text # <<>>
    /\ segment_postal_code # <<>>
    /\ segment_base_address # <<>>
    /\ Len(lookup_log) = 1

\* ---------------------------------------------------------------------------
\* C35: what every state of step Complete holds

\* C35: in every reachable state in which the step is Complete the recording
\* flag is off, the detail text is non-empty and the final address is the
\* postal code, a space, the base address and the detail text, each as the
\* session holds it in that state
C35_CompleteStateConsistent ==
    segment_current_step = STEP_COMPLETE =>
        /\ ~segment_recording
        /\ segment_detail_text # <<>>
        /\ segment_final_address =
              segment_postal_code \o <<" ">> \o segment_base_address
                  \o segment_detail_text

\* step Complete after one lookup, with the final address of the session's
\* three parts
C35_Witness ==
    /\ segment_current_step = STEP_COMPLETE
    /\ Len(lookup_log) = 1
    /\ segment_detail_text # <<>>
    /\ Len(segment_final_address) =
          Len(segment_postal_code) + 1 + Len(segment_base_address)
              + Len(segment_detail_text)
    /\ ~segment_recording

\* ---------------------------------------------------------------------------
\* C36: when the lookup is made, and what follows a failed lookup

\* the step makes a lookup
LookupMade == lookup_log' # lookup_log

\* step PostalCode after a lookup that failed
FailedLookupState ==
    /\ segment_current_step = STEP_POSTAL_CODE
    /\ segment_postal_code # <<>>
    /\ segment_base_address = <<>>

\* C36: a step makes a lookup only in step PostalCode, with an empty postal
\* code and a postal code found in the accumulated final text, and that step
\* stores the postal code; a postal code that is set is changed only by a
\* reset, which empties it together with the base address and the transcript
\* buffer, so at most one lookup is made between two resets; and from a state
\* after a failed lookup every step either is such a reset or makes no
\* lookup and leaves the step, the postal code and the empty base address,
\* whatever final text arrives
C36_OneLookupUntilReset ==
    /\ [][LookupMade =>
              /\ segment_current_step = STEP_POSTAL_CODE
              /\ segment_postal_code = <<>>
              /\ PCS_extract_postal_code(all_final_text) # NoneStr
              /\ segment_postal_code' = PCS_extract_postal_code(all_final_text)
              /\ Len(lookup_log') = Len(lookup_log) + 1]_vars
    /\ [][(segment_postal_code # <<>> /\ segment_postal_code' # segment_postal_code) =>
              /\ segment_postal_code' = <<>>
              /\ segment_base_address' = <<>>
              /\ all_final_text' = <<>>]_vars
    /\ [][FailedLookupState =>
              \/ /\ segment_postal_code' = <<>>
                 /\ all_final_text' = <<>>
                 /\ ~LookupMade
              \/ /\ ~LookupMade
                 /\ segment_postal_code' = segment_postal_code
                 /\ segment_base_address' = <<>>
                 /\ segment_current_step' = STEP_POSTAL_CODE]_vars

\* the one lookup failed, and new final text has arrived since
C36_Witness ==
    /\ FailedLookupState
    /\ Len(lookup_log) = 1
    /\ ~lookup_log[1].success
    /\ finals > lookup_log[1].finals
    /\ all_final_text # <<>>
    /\ segment_recording

\* ---------------------------------------------------------------------------
\* C37: the stored best candidate and the stored candidate list

\* C37: in every reachable state of the store the best candidate is absent
\* exactly when the candidate list is empty, and a best candidate that is
\* present is an element of the candidate list
C37_BestConsistentWithList ==
    /\ best_address = <<>> <=> extracted_addresses = <<>>
    /\ best_address # <<>> =>
          \E k \in 1..Len(extracted_addresses) : extracted_addresses[k] = best_address[1]


(***************************************************************************)
(* What is done with an extracted postal code: validate_postal_code and    *)
(* the format check of get_address_by_postal_code.                         *)
(***************************************************************************)
\* a validator that takes ASCII digits only
validate_postal_code_ascii(postal_code) ==
    IF postal_code = NoneStr \/ postal_code = <<>> THEN FALSE
    ELSE LET cleaned == Remove(postal_code, {"-", "cho", " ", "fsp"})
         IN  /\ Len(cleaned) = 7
             /\ \A k \in 1..Len(cleaned) : cleaned[k] \in AsciiDigits

\* PostalCodeService.validate_postal_code
validate_postal_code(postal_code) ==
    IF postal_code = NoneStr \/ postal_code = <<>> THEN FALSE
    ELSE LET cleaned == Remove(postal_code, {"-", "cho", " ", "fsp"})
         IN  /\ Len(cleaned) = 7
             /\ \A k \in 1..Len(cleaned) : IsDigit(cleaned[k])

\* C38: every value other than None that PostalCodeService.extract_postal_code
\* returns passes validate_postal_code, and get_address_by_postal_code does
\* not turn it down as malformed: whatever the network call does, the request
\* is made and the error is not the invalid-format one
C38_ExtractedCodeIsAccepted ==
    (fnPc = "done" /\ fnOut.pcs # NoneStr) =>
        /\ validate_postal_code(fnOut.pcs)
        /\ \A net \in NetOutcomes :
              LET result == get_address_by_postal_code(fnOut.pcs, net)
              IN  /\ lookup_try(fnOut.pcs, net).requested
                  /\ result.error # "invalid postal code format"

\* a code that holds a full-width digit was extracted and is accepted
C38_Witness ==
    /\ fnPc = "done"
    /\ fnOut.pcs # NoneStr
    /\ \E k \in 1..Len(fnOut.pcs) : fnOut.pcs[k] \in FullWidthDigits
    /\ validate_postal_code(fnOut.pcs)

====
